---- MODULE Spec2Model ----
(***************************************************************************)
(* Local Store (services/database/database.ts), Metadata Cache and Layout  *)
(* Assembler (services/describe.ts), and the sync button and survey editor *)
(* reducer (components/surveyList/SurveyListHeaderButtons.tsx) of the      *)
(* Grassroots mobile survey app.                                           *)
(*                                                                         *)
(* The store is a set of SQLite tables.  Every store operation returns a   *)
(* promise and issues its SQL statements one after another through         *)
(* executeTransaction; a statement is executed atomically by the database, *)
(* and the continuation of the operation runs right after it.              *)
(***************************************************************************)
EXTENDS Integers, Sequences, FiniteSets, TLC

----------------------------------------------------------------------------
(* Bounds of the model *)

\* largest _localId the model lets a table hand out
MaxId == 3
\* largest number of records in one saveRecords batch
MaxBatch == 2
\* a behaviour starts at most this many metadata refreshes
MaxRefresh == 2
\* largest number of layout items cached when a layout is assembled
MaxItems == 3
\* largest number of surveys on the survey list
MaxSurveys == 3
\* a behaviour confirms at most this many syncs
MaxSyncs == 2
\* a behaviour dispatches at most this many actions to the survey editor
MaxActions == 3

----------------------------------------------------------------------------
(* JavaScript values.  Every value is a record of the same shape, so that  *)
(* values of different types can be compared: t is the typeof tag, n the   *)
(* number (or 1/0 for a boolean), s the characters of a string.            *)

JSV(t, n, s) == [t |-> t, n |-> n, s |-> s]
Null == JSV("null", 0, <<>>)
Undefined == JSV("undefined", 0, <<>>)
True == JSV("boolean", 1, <<>>)
False == JSV("boolean", 0, <<>>)
Num(n) == JSV("number", n, <<>>)
Str(s) == JSV("string", 0, s)

\* JavaScript's ToBoolean: !value is ~Truthy(value)
Truthy(v) ==
  CASE v.t = "null" -> FALSE
    [] v.t = "undefined" -> FALSE
    [] v.t = "boolean" -> v.n = 1
    [] v.t = "number" -> v.n # 0
    [] v.t = "string" -> v.s # <<>>
    [] OTHER -> TRUE

(* SQLite values, of the same shape: t is "integer", "text" or "null". *)
SInt(n) == JSV("integer", n, <<>>)
SText(s) == JSV("text", 0, s)
SNull == JSV("null", 0, <<>>)

----------------------------------------------------------------------------
(* Text of a statement.  The values of a statement are kept as the         *)
(* characters the template strings produce; the database parses them back. *)

Quote == "'"
Digits == <<"0", "1", "2", "3", "4", "5", "6", "7", "8", "9">>

RECURSIVE NumToChars(_)
\* String(n) for a non-negative integer
NumToChars(n) ==
  IF n < 10 THEN <<Digits[n + 1]>>
  ELSE NumToChars(n \div 10) \o <<Digits[(n % 10) + 1]>>

IsDigit(c) == \E i \in 1..10 : Digits[i] = c
DigitVal(c) == (CHOOSE i \in 1..10 : Digits[i] = c) - 1

RECURSIVE CharsToNum(_)
CharsToNum(cs) ==
  IF cs = <<>> THEN 0
  ELSE 10 * CharsToNum(SubSeq(cs, 1, Len(cs) - 1)) + DigitVal(cs[Len(cs)])

IsNumeral(cs) == cs # <<>> /\ \A i \in 1..Len(cs) : IsDigit(cs[i])

RECURSIVE EscapeQuotes(_)
\* value.replace(/'/g, "''")
EscapeQuotes(s) ==
  IF s = <<>> THEN <<>>
  ELSE (IF Head(s) = Quote THEN <<Quote, Quote>> ELSE <<Head(s)>>)
         \o EscapeQuotes(Tail(s))

\* String(value) as a template string or Array.prototype.toString renders it
JSToChars(v) ==
  CASE v.t = "string" -> v.s
    [] v.t = "number" -> NumToChars(v.n)
    [] v.t = "boolean" -> IF v.n = 1 THEN <<"t", "r", "u", "e">>
                          ELSE <<"f", "a", "l", "s", "e">>
    [] v.t = "null" -> <<"n", "u", "l", "l">>
    [] OTHER -> <<"u", "n", "d", "e", "f", "i", "n", "e", "d">>

\* convertObjectToSQLite, one value: the JavaScript value put in the statement
ConvertValue(value) ==
  IF ~Truthy(value) THEN Str(<<Quote, Quote>>)
  ELSE IF value.t = "string" THEN Str(<<Quote>> \o EscapeQuotes(value.s) \o <<Quote>>)
  ELSE IF value.t = "boolean" THEN Num(IF Truthy(value) THEN 1 ELSE 0)
  ELSE value

\* A record is a sequence of entries [k |-> field name, v |-> value], in the
\* order of Object.entries.
convertObjectToSQLite(record) ==
  [i \in 1..Len(record) |-> [k |-> record[i].k, v |-> ConvertValue(record[i].v)]]

\* getFieldTypeMappings
getFieldTypeMappings(record) ==
  [i \in 1..Len(record) |->
     [name |-> record[i].k,
      type |-> IF record[i].v.t = "number" \/ record[i].v.t = "boolean"
               THEN "integer" ELSE "text"]]

----------------------------------------------------------------------------
(* SQLite's reading of a value token of a statement. *)

SyntaxError == JSV("error", 0, <<>>)

RECURSIVE ScanString(_, _)
\* cs follows an opening quote; acc is the text read so far.  The literal
\* ends at a quote that is not doubled and must end the token.
ScanString(cs, acc) ==
  IF cs = <<>> THEN SyntaxError
  ELSE IF Head(cs) # Quote THEN ScanString(Tail(cs), Append(acc, Head(cs)))
  ELSE IF Len(cs) >= 2 /\ cs[2] = Quote
       THEN ScanString(Tail(Tail(cs)), Append(acc, Quote))
  ELSE IF Len(cs) = 1 THEN SText(acc)
  ELSE SyntaxError

\* one literal: a quoted string, a numeral or null; anything else (undefined,
\* a bare word, a broken string) makes the statement fail
ParseLiteral(cs) ==
  IF cs = <<>> THEN SyntaxError
  ELSE IF cs = <<"n", "u", "l", "l">> THEN SNull
  ELSE IF Head(cs) = Quote THEN ScanString(Tail(cs), <<>>)
  ELSE IF IsNumeral(cs) THEN SInt(CharsToNum(cs))
  ELSE SyntaxError

\* column affinity: what a column of the given declared type stores
ApplyAffinity(type, v) ==
  IF type = "integer" /\ v.t = "text" /\ IsNumeral(v.s) THEN SInt(CharsToNum(v.s))
  ELSE IF type = "text" /\ v.t = "integer" THEN SText(NumToChars(v.n))
  ELSE v

----------------------------------------------------------------------------
(* The database: one entry per table name.  cols are the declared columns  *)
(* in order, a row holds one SQLite value per column, seq is the table's   *)
(* entry in sqlite_sequence (the largest _localId it ever handed out),     *)
(* which DROP TABLE removes with the table.                                *)

LocalId == "_localId"

NoTable == [exists |-> FALSE, cols |-> <<>>, rows |-> <<>>, seq |-> 0]

Col(name, type, pk, auto) == [name |-> name, type |-> type, pk |-> pk, auto |-> auto]

\* position of the column called name, 0 when there is none
ColIndex(cols, name) ==
  IF \E i \in 1..Len(cols) : cols[i].name = name
  THEN CHOOSE i \in 1..Len(cols) : cols[i].name = name
  ELSE 0

PosIn(seq, x) ==
  IF \E i \in 1..Len(seq) : seq[i] = x
  THEN CHOOSE i \in 1..Len(seq) : seq[i] = x
  ELSE 0

MaxOf(S) == IF S = {} THEN 0 ELSE CHOOSE m \in S : \A x \in S : x <= m

\* the column that is an alias of the rowid: INTEGER PRIMARY KEY
RowidCol(cols) ==
  IF \E i \in 1..Len(cols) : cols[i].pk /\ cols[i].type = "integer"
  THEN CHOOSE i \in 1..Len(cols) : cols[i].pk /\ cols[i].type = "integer"
  ELSE 0

PkCol(cols) ==
  IF \E i \in 1..Len(cols) : cols[i].pk
  THEN CHOOSE i \in 1..Len(cols) : cols[i].pk
  ELSE 0

RowIds(tab) ==
  IF RowidCol(tab.cols) = 0 THEN {}
  ELSE {tab.rows[r][RowidCol(tab.cols)].n : r \in 1..Len(tab.rows)}

\* the result of a statement: ok, the error otherwise, the rows a select
\* returns (each a sequence of [k |-> column, v |-> value]), the table after
\* the statement, and the _localIds it assigned
Outcome(ok, err, rows, tab, ids) ==
  [ok |-> ok, err |-> err, rows |-> rows, tab |-> tab, ids |-> ids]
Fails(err, tab) == Outcome(FALSE, err, <<>>, tab, <<>>)
Succeeds(rows, tab, ids) == Outcome(TRUE, "", rows, tab, ids)

ErrSyntax == "syntax error"
ErrNoTable == "no such table"
ErrNoColumn == "no such column"
ErrConstraint == "constraint failed"
ErrMismatch == "datatype mismatch"
ErrValues == "values for columns"
ErrIO == "disk I/O error"

----------------------------------------------------------------------------
(* WHERE clauses.  The callers pass the clause as text; the model keeps    *)
(* the falsy values a caller may pass (undefined, null, '') and the        *)
(* filters "where field = literal" and "where field in (literal,...)".     *)

WhereUndefined == [kind |-> "undefined", field |-> "", val |-> SNull, vals |-> <<>>]
WhereNull == [kind |-> "null", field |-> "", val |-> SNull, vals |-> <<>>]
WhereEmpty == [kind |-> "empty", field |-> "", val |-> SNull, vals |-> <<>>]
WhereEq(f, v) == [kind |-> "eq", field |-> f, val |-> v, vals |-> <<>>]
\* an empty list is accepted by SQLite and matches no row
WhereIn(f, vs) == [kind |-> "in", field |-> f, val |-> SNull, vals |-> vs]

\* !whereClause
WhereFalsy(w) == w.kind \in {"undefined", "null", "empty"}

Matches(tab, row, w) ==
  IF w.kind = "eq"
  THEN w.val.t # "null" /\ row[ColIndex(tab.cols, w.field)] =
         ApplyAffinity(tab.cols[ColIndex(tab.cols, w.field)].type, w.val)
  ELSE IF w.kind = "in"
  THEN \E i \in 1..Len(w.vals) :
         w.vals[i].t # "null" /\ row[ColIndex(tab.cols, w.field)] =
           ApplyAffinity(tab.cols[ColIndex(tab.cols, w.field)].type, w.vals[i])
  ELSE TRUE

WhereColumnsOk(tab, w) == w.kind \in {"eq", "in"} => ColIndex(tab.cols, w.field) # 0

RowObject(tab, row) == [i \in 1..Len(tab.cols) |-> [k |-> tab.cols[i].name, v |-> row[i]]]

RECURSIVE SelectSeqIdx(_, _, _)
\* the rows of tab that match w, in table order
SelectSeqIdx(tab, w, i) ==
  IF i > Len(tab.rows) THEN <<>>
  ELSE (IF Matches(tab, tab.rows[i], w) THEN <<tab.rows[i]>> ELSE <<>>)
         \o SelectSeqIdx(tab, w, i + 1)

RECURSIVE RejectSeqIdx(_, _, _)
RejectSeqIdx(tab, w, i) ==
  IF i > Len(tab.rows) THEN <<>>
  ELSE (IF Matches(tab, tab.rows[i], w) THEN <<>> ELSE <<tab.rows[i]>>)
         \o RejectSeqIdx(tab, w, i + 1)

----------------------------------------------------------------------------
(* Statements.  A statement keeps the structure of the text the operation  *)
(* builds and, for its values, the characters themselves.                  *)

Stmt(op, table, cols, keys, rows, sets, where, id) ==
  [op |-> op, table |-> table, cols |-> cols, keys |-> keys, rows |-> rows,
   sets |-> sets, where |-> where, id |-> id]

NoStmt == Stmt("none", "", <<>>, <<>>, <<>>, <<>>, WhereEmpty, <<>>)
\* select * from T <where>
SelectStmt(t, w) == Stmt("select", t, <<>>, <<>>, <<>>, <<>>, w, <<>>)
\* create table if not exists T (<cols>); an empty name stands for the empty
\* text a trailing comma leaves
CreateStmt(t, cols) == Stmt("create", t, cols, <<>>, <<>>, <<>>, WhereEmpty, <<>>)
\* insert into T (<keys>) values (<row>),(<row>)
InsertStmt(t, keys, rows) == Stmt("insert", t, <<>>, keys, rows, <<>>, WhereEmpty, <<>>)
\* update T set <k = v>,... <where>
UpdateStmt(t, sets, w) == Stmt("update", t, <<>>, <<>>, <<>>, sets, w, <<>>)
\* delete from T where _localId = <id>
DeleteStmt(t, id) == Stmt("delete", t, <<>>, <<>>, <<>>, <<>>, WhereEmpty, id)
\* DROP TABLE IF EXISTS T
DropStmt(t) == Stmt("drop", t, <<>>, <<>>, <<>>, <<>>, WhereEmpty, <<>>)

NoDuplicates(names) ==
  \A i, j \in 1..Len(names) : names[i] = names[j] => i = j

ExecSelect(tab, st) ==
  IF st.where.kind = "null" THEN Fails(ErrSyntax, tab)
  ELSE IF ~tab.exists THEN Fails(ErrNoTable, tab)
  ELSE IF ~WhereColumnsOk(tab, st.where) THEN Fails(ErrNoColumn, tab)
  ELSE LET hit == SelectSeqIdx(tab, st.where, 1)
       IN Succeeds([i \in 1..Len(hit) |-> RowObject(tab, hit[i])], tab, <<>>)

ExecCreate(tab, st) ==
  IF st.cols = <<>> \/ \E i \in 1..Len(st.cols) : st.cols[i].name = ""
  THEN Fails(ErrSyntax, tab)
  ELSE IF tab.exists THEN Succeeds(<<>>, tab, <<>>)
  ELSE IF ~NoDuplicates([i \in 1..Len(st.cols) |-> st.cols[i].name])
       THEN Fails("duplicate column name", tab)
  ELSE IF Cardinality({i \in 1..Len(st.cols) : st.cols[i].pk}) > 1
       THEN Fails("more than one primary key", tab)
  ELSE Succeeds(<<>>, [exists |-> TRUE, cols |-> st.cols, rows |-> <<>>, seq |-> 0], <<>>)

\* the row an insert stores for the parsed values vals given for keys,
\* before the rowid is assigned
RowOf(tab, keys, vals) ==
  [c \in 1..Len(tab.cols) |->
     IF PosIn(keys, tab.cols[c].name) # 0
     THEN ApplyAffinity(tab.cols[c].type, vals[PosIn(keys, tab.cols[c].name)])
     ELSE SNull]

\* the rowid SQLite picks for a row that gives none: above every rowid in the
\* table and, for an AUTOINCREMENT column, above every rowid it ever gave
NextRowid(tab) ==
  LET rc == RowidCol(tab.cols)
  IN IF tab.cols[rc].auto THEN MaxOf(RowIds(tab) \cup {tab.seq}) + 1
     ELSE MaxOf(RowIds(tab)) + 1

PkTaken(tab, v) ==
  LET pc == PkCol(tab.cols)
  IN pc # 0 /\ v.t # "null" /\ \E r \in 1..Len(tab.rows) : tab.rows[r][pc] = v

RECURSIVE InsertRowsPartial(_, _, _, _, _, _)
\* an insert that keeps the rows it wrote before the one that failed
InsertRowsPartial(orig, tab, keys, vrows, i, ids) ==
  IF i > Len(vrows) THEN Succeeds(<<>>, tab, ids)
  ELSE
    LET rc == RowidCol(tab.cols)
        pc == PkCol(tab.cols)
        r0 == RowOf(tab, keys, vrows[i])
        assign == rc # 0 /\ r0[rc].t = "null"
        row == IF assign THEN [r0 EXCEPT ![rc] = SInt(NextRowid(tab))] ELSE r0
        auto == rc # 0 /\ tab.cols[rc].auto
        local == rc # 0 /\ tab.cols[rc].name = LocalId
    IN IF rc # 0 /\ row[rc].t # "integer" THEN Fails(ErrMismatch, tab)
       ELSE IF pc # 0 /\ PkTaken(tab, row[pc]) THEN Fails(ErrConstraint, tab)
       ELSE InsertRowsPartial(orig,
                       [tab EXCEPT !.rows = Append(@, row),
                                   !.seq = IF auto THEN MaxOf({@, row[rc].n}) ELSE @],
                       keys, vrows, i + 1,
                       IF local THEN Append(ids, row[rc].n) ELSE ids)

RECURSIVE InsertRows(_, _, _, _, _, _)
\* inserts vrows[i..] one after another; any failure leaves the table as it
\* was before the statement (orig)
InsertRows(orig, tab, keys, vrows, i, ids) ==
  IF i > Len(vrows) THEN Succeeds(<<>>, tab, ids)
  ELSE
    LET rc == RowidCol(tab.cols)
        pc == PkCol(tab.cols)
        r0 == RowOf(tab, keys, vrows[i])
        assign == rc # 0 /\ r0[rc].t = "null"
        row == IF assign THEN [r0 EXCEPT ![rc] = SInt(NextRowid(tab))] ELSE r0
        auto == rc # 0 /\ tab.cols[rc].auto
        local == rc # 0 /\ tab.cols[rc].name = LocalId
    IN IF rc # 0 /\ row[rc].t # "integer" THEN Fails(ErrMismatch, orig)
       ELSE IF pc # 0 /\ PkTaken(tab, row[pc]) THEN Fails(ErrConstraint, orig)
       ELSE InsertRows(orig,
                       [tab EXCEPT !.rows = Append(@, row),
                                   !.seq = IF auto THEN MaxOf({@, row[rc].n}) ELSE @],
                       keys, vrows, i + 1,
                       IF local THEN Append(ids, row[rc].n) ELSE ids)

ExecInsert(tab, st) ==
  LET vrows == [i \in 1..Len(st.rows) |->
                  [j \in 1..Len(st.rows[i]) |-> ParseLiteral(st.rows[i][j])]]
  IN IF st.keys = <<>>
        \/ \E i \in 1..Len(vrows) :
             vrows[i] = <<>> \/ \E j \in 1..Len(vrows[i]) : vrows[i][j] = SyntaxError
     THEN Fails(ErrSyntax, tab)
     ELSE IF ~tab.exists THEN Fails(ErrNoTable, tab)
     ELSE IF \E k \in 1..Len(st.keys) : ColIndex(tab.cols, st.keys[k]) = 0
          THEN Fails(ErrNoColumn, tab)
     ELSE IF \E i \in 1..Len(vrows) : Len(vrows[i]) # Len(st.keys)
          THEN Fails(ErrValues, tab)
     ELSE InsertRows(tab, tab, st.keys, vrows, 1, <<>>)

\* the row after "set k = v, ..." : assignments apply left to right
UpdatedRow(tab, row, sets, vals) ==
  [c \in 1..Len(tab.cols) |->
     IF \E k \in 1..Len(sets) : sets[k].k = tab.cols[c].name
     THEN ApplyAffinity(tab.cols[c].type,
            vals[CHOOSE k \in 1..Len(sets) :
                   /\ sets[k].k = tab.cols[c].name
                   /\ \A m \in 1..Len(sets) : sets[m].k = tab.cols[c].name => m <= k])
     ELSE row[c]]

ExecUpdate(tab, st) ==
  LET vals == [k \in 1..Len(st.sets) |-> ParseLiteral(st.sets[k].v)]
      rows == [r \in 1..Len(tab.rows) |->
                 IF Matches(tab, tab.rows[r], st.where)
                 THEN UpdatedRow(tab, tab.rows[r], st.sets, vals)
                 ELSE tab.rows[r]]
      rc == RowidCol(tab.cols)
      pc == PkCol(tab.cols)
  IN IF st.sets = <<>> \/ st.where.kind \in {"undefined", "null"}
        \/ \E k \in 1..Len(vals) : vals[k] = SyntaxError
     THEN Fails(ErrSyntax, tab)
     ELSE IF ~tab.exists THEN Fails(ErrNoTable, tab)
     ELSE IF ~WhereColumnsOk(tab, st.where)
             \/ \E k \in 1..Len(st.sets) : ColIndex(tab.cols, st.sets[k].k) = 0
          THEN Fails(ErrNoColumn, tab)
     ELSE IF rc # 0 /\ \E r \in 1..Len(rows) : rows[r][rc].t # "integer"
          THEN Fails(ErrMismatch, tab)
     ELSE IF pc # 0 /\ \E r1, r2 \in 1..Len(rows) :
                         r1 # r2 /\ rows[r1][pc] = rows[r2][pc] /\ rows[r1][pc].t # "null"
          THEN Fails(ErrConstraint, tab)
     ELSE Succeeds(<<>>, [tab EXCEPT !.rows = rows], <<>>)

ExecDelete(tab, st) ==
  LET v == ParseLiteral(st.id)
      w == WhereEq(LocalId, v)
  IN IF ~tab.exists THEN Fails(ErrNoTable, tab)
     ELSE IF v = SyntaxError \/ ColIndex(tab.cols, LocalId) = 0 THEN Fails(ErrNoColumn, tab)
     ELSE Succeeds(<<>>, [tab EXCEPT !.rows = RejectSeqIdx(tab, w, 1)], <<>>)

ExecDrop(tab, st) == Succeeds(<<>>, NoTable, <<>>)

\* the database executing one statement; io: the device fails under it
ExecStmt(tab, st, io) ==
  IF io THEN Fails(ErrIO, tab)
  ELSE CASE st.op = "select" -> ExecSelect(tab, st)
         [] st.op = "create" -> ExecCreate(tab, st)
         [] st.op = "insert" -> ExecInsert(tab, st)
         [] st.op = "update" -> ExecUpdate(tab, st)
         [] st.op = "delete" -> ExecDelete(tab, st)
         [] OTHER -> ExecDrop(tab, st)

----------------------------------------------------------------------------
(* State *)

TableNames ==
  {"Survey", "RecordType", "PageLayoutSection", "PageLayoutItem", "PicklistValue",
   "Localization"}

\* the operations that may be in flight at once
Slots == {1, 2}

VARIABLES
  tables,    \* the database: table name -> table
  localIds,  \* table name -> the _localIds the table assigned since it was created
  ops,       \* slot -> the store operation running or last run in it
  refresh,   \* the metadata refresh: its position, locals and outcome
  remote,    \* the snapshot the remote system serves to the running refresh
  settings,  \* the key/value settings store: the field-type entry
  before,    \* what the tables and the settings held when the refresh began
  assembly,  \* the buildLayoutDetail call: its position, locals and result
  overlap,   \* slot -> another write was in flight since the call in the slot began
  sync,      \* the survey list screen: surveys, network, spinner, sync handler
  editor     \* the survey editor: its state object and the shared initialState

storeVars == <<tables, localIds, ops>>
metaVars == <<refresh, remote, settings, before>>
appVars == <<assembly, overlap, sync, editor>>
vars ==
  <<tables, localIds, ops, refresh, remote, settings, before, assembly, overlap, sync, editor>>

(* An operation: its arguments (table, records, primaryKey; the where      *)
(* clause is in its statement), its promise (state, value when resolved,   *)
(* error when rejected), the statement it queued last (waiting to run      *)
(* while pc = "stmt") and, for saveRecords, the insert that follows the    *)
(* create-table statement.  failed is the error of a statement that failed *)
(* on its behalf, issued the statements the database ran for it.           *)
Op(kind, table, records, primaryKey, pc, promise, error, stmt, after) ==
  [kind |-> kind, table |-> table, records |-> records, primaryKey |-> primaryKey,
   pc |-> pc, promise |-> promise, value |-> <<>>, error |-> error, stmt |-> stmt,
   after |-> after, failed |-> "", issued |-> <<>>]

IdleOp == Op("none", "", <<>>, "", "done", "none", "", NoStmt, NoStmt)

ErrInvalidArgument == "Specify where clause or use \"getAllRecords\" instead."
ErrTypeError == "TypeError: fv.value.replace is not a function"

\* a slot is free once the operation in it has no statement left to run
Free(s) == ops[s].pc = "done"

\* the operation in slot s is a write to table t with a statement left to run
WriteInFlight(s, t) ==
  /\ ops[s].pc = "stmt"
  /\ ops[s].table = t
  /\ ops[s].kind \notin {"getRecords", "getAllRecords"}

\* overlap when a write to table t begins in slot s: the call overlaps the
\* writes to t in flight, and each of them overlaps the call
Overlaps(s, t) ==
  [k \in Slots |->
     IF k = s THEN \E o \in Slots \ {s} : WriteInFlight(o, t)
     ELSE overlap[k] \/ WriteInFlight(k, t)]

----------------------------------------------------------------------------
(* The operations of database.ts: what each does before its first          *)
(* statement runs.                                                         *)

getAllRecords(s, t) ==
  /\ Free(s)
  /\ ops' = [ops EXCEPT ![s] = Op("getAllRecords", t, <<>>, "", "stmt", "pending", "",
                                  SelectStmt(t, WhereEmpty), NoStmt)]
  /\ UNCHANGED <<tables, localIds>>
  /\ UNCHANGED metaVars
  /\ UNCHANGED appVars

\* getRecords without its check of whereClause
getRecordsUnchecked(s, t, whereClause) ==
  /\ Free(s)
  /\ ops' = [ops EXCEPT ![s] = Op("getRecords", t, <<>>, "", "stmt", "pending", "",
                                  SelectStmt(t, whereClause), NoStmt)]
  /\ UNCHANGED <<tables, localIds>>
  /\ UNCHANGED metaVars
  /\ UNCHANGED appVars

\* getRecords up to its statement: reject(...) does not leave the executor,
\* the select is queued all the same
GetRecordsOp(t, whereClause) ==
  Op("getRecords", t, <<>>, "", "stmt",
     IF WhereFalsy(whereClause) THEN "rejected" ELSE "pending",
     IF WhereFalsy(whereClause) THEN ErrInvalidArgument ELSE "",
     SelectStmt(t, whereClause), NoStmt)

getRecords(s, t, whereClause) ==
  /\ Free(s)
  /\ ops' = [ops EXCEPT ![s] = GetRecordsOp(t, whereClause)]
  /\ UNCHANGED <<tables, localIds>>
  /\ UNCHANGED metaVars
  /\ UNCHANGED appVars

\* a _localId column without autoincrement
LocalIdColumnPlain == Col(LocalId, "integer", TRUE, FALSE)

\* the _localId column prepareTable adds
LocalIdColumn == Col(LocalId, "integer", TRUE, TRUE)

\* a create-table statement that leaves the fields out
PrepareStmtLocalIdOnly(t, fieldTypeMappings, primaryKey) ==
  CreateStmt(t, <<LocalIdColumn>>)

\* the create-table statement of prepareTable; primaryKey "" stands for an
\* unset (undefined or empty) primaryKey
PrepareStmt(t, fieldTypeMappings, primaryKey) ==
  LET fieldsWithType ==
        [i \in 1..Len(fieldTypeMappings) |->
           Col(fieldTypeMappings[i].name, fieldTypeMappings[i].type,
               fieldTypeMappings[i].name = primaryKey, FALSE)]
      trailing == IF fieldsWithType = <<>> THEN <<Col("", "", FALSE, FALSE)>>
                  ELSE fieldsWithType
  IN CreateStmt(t, IF primaryKey = "" THEN <<LocalIdColumn>> \o trailing
                   ELSE fieldsWithType)

prepareTable(s, t, fieldTypeMappings, primaryKey) ==
  /\ Free(s)
  /\ ops' = [ops EXCEPT ![s] = Op("prepareTable", t, <<>>, primaryKey, "stmt", "pending", "",
                                  PrepareStmt(t, fieldTypeMappings, primaryKey), NoStmt)]
  /\ UNCHANGED <<tables, localIds>>
  /\ UNCHANGED metaVars
  /\ overlap' = Overlaps(s, t)
  /\ UNCHANGED <<assembly, sync, editor>>

\* the insert statement of saveRecords
SaveStmt(t, records) ==
  InsertStmt(t,
    [i \in 1..Len(records[1]) |-> getFieldTypeMappings(records[1])[i].name],
    [r \in 1..Len(records) |->
       [j \in 1..Len(records[r]) |-> JSToChars(convertObjectToSQLite(records[r])[j].v)]])

\* saveRecords without the check of records.length: the table is prepared
\* whatever the list holds
SaveRecordsOpUnguarded(t, records, primaryKey) ==
  Op("saveRecords", t, records, primaryKey, "stmt", "pending", "",
     PrepareStmt(t, IF Len(records) = 0 THEN <<>> ELSE getFieldTypeMappings(records[1]),
                 primaryKey),
     IF Len(records) = 0 THEN NoStmt ELSE SaveStmt(t, records))

\* saveRecords up to its first await: an empty list resolves at once
SaveRecordsOp(t, records, primaryKey) ==
  IF Len(records) = 0
  THEN Op("saveRecords", t, records, primaryKey, "done", "resolved", "", NoStmt, NoStmt)
  ELSE Op("saveRecords", t, records, primaryKey, "stmt", "pending", "",
          PrepareStmt(t, getFieldTypeMappings(records[1]), primaryKey),
          SaveStmt(t, records))

saveRecords(s, t, records, primaryKey) ==
  /\ Free(s)
  /\ ops' = [ops EXCEPT ![s] = SaveRecordsOp(t, records, primaryKey)]
  /\ UNCHANGED <<tables, localIds>>
  /\ UNCHANGED metaVars
  /\ overlap' = Overlaps(s, t)
  /\ UNCHANGED <<assembly, sync, editor>>

RECURSIVE DropNulls(_)
\* the entries of record whose value is not null (value === null is deleted)
DropNulls(record) ==
  IF record = <<>> THEN <<>>
  ELSE (IF Head(record).v.t = "null" THEN <<>> ELSE <<Head(record)>>)
         \o DropNulls(Tail(record))

UpdateRecordStmt(t, record, whereClause) ==
  LET kept == convertObjectToSQLite(DropNulls(record))
  IN UpdateStmt(t, [i \in 1..Len(kept) |-> [k |-> kept[i].k, v |-> JSToChars(kept[i].v)]],
                whereClause)

updateRecord(s, t, record, whereClause) ==
  /\ Free(s)
  /\ ops' = [ops EXCEPT ![s] = Op("updateRecord", t, <<record>>, "", "stmt", "pending", "",
                                  UpdateRecordStmt(t, record, whereClause), NoStmt)]
  /\ UNCHANGED <<tables, localIds>>
  /\ UNCHANGED metaVars
  /\ overlap' = Overlaps(s, t)
  /\ UNCHANGED <<assembly, sync, editor>>

\* fv.value.replace exists on strings only: a truthy number or boolean throws
Throws(fieldValues) ==
  \E i \in 1..Len(fieldValues) :
    Truthy(fieldValues[i].v) /\ fieldValues[i].v.t # "string"

UpdateFieldValuesStmt(t, fieldValues, whereClause) ==
  UpdateStmt(t,
    [i \in 1..Len(fieldValues) |->
       [k |-> fieldValues[i].k,
        v |-> <<Quote>>
              \o (IF Truthy(fieldValues[i].v) THEN EscapeQuotes(fieldValues[i].v.s)
                  ELSE <<>>)
              \o <<Quote>>]],
    whereClause)

updateFieldValues(s, t, fieldValues, whereClause) ==
  /\ Free(s)
  /\ ops' = [ops EXCEPT ![s] =
       IF Throws(fieldValues)
       THEN Op("updateFieldValues", t, <<fieldValues>>, "", "done", "rejected",
               ErrTypeError, NoStmt, NoStmt)
       ELSE Op("updateFieldValues", t, <<fieldValues>>, "", "stmt", "pending", "",
               UpdateFieldValuesStmt(t, fieldValues, whereClause), NoStmt)]
  /\ UNCHANGED <<tables, localIds>>
  /\ UNCHANGED metaVars
  /\ overlap' = Overlaps(s, t)
  /\ UNCHANGED <<assembly, sync, editor>>

deleteRecord(s, t, id) ==
  /\ Free(s)
  /\ ops' = [ops EXCEPT ![s] = Op("deleteRecord", t, <<>>, "", "stmt", "pending", "",
                                  DeleteStmt(t, JSToChars(id)), NoStmt)]
  /\ UNCHANGED <<tables, localIds>>
  /\ UNCHANGED metaVars
  /\ overlap' = Overlaps(s, t)
  /\ UNCHANGED <<assembly, sync, editor>>

ClearTableOp(t) ==
  Op("clearTable", t, <<>>, "", "stmt", "pending", "", DropStmt(t), NoStmt)

clearTable(s, t) ==
  /\ Free(s)
  /\ ops' = [ops EXCEPT ![s] = ClearTableOp(t)]
  /\ UNCHANGED <<tables, localIds>>
  /\ UNCHANGED metaVars
  /\ overlap' = Overlaps(s, t)
  /\ UNCHANGED <<assembly, sync, editor>>

----------------------------------------------------------------------------
(* executeTransaction: the database runs the queued statement of an        *)
(* operation and calls back; the operation's continuation follows.         *)

\* resolve and reject settle a promise once: later calls change nothing
Settle(op, out) ==
  [op EXCEPT !.pc = "done",
             !.promise = IF @ # "pending" THEN @
                         ELSE IF out.ok THEN "resolved" ELSE "rejected",
             !.value = IF op.promise = "pending" /\ out.ok THEN out.rows ELSE @,
             !.error = IF op.promise = "pending" /\ ~out.ok THEN out.err ELSE @]

\* saveRecords after "await prepareTable(...)": the insert is queued when the
\* table is ready; when prepareTable rejects, the await throws inside the
\* async executor, which neither resolves nor rejects the promise
AfterPrepare(op, out) ==
  IF out.ok THEN [op EXCEPT !.stmt = op.after, !.after = NoStmt]
  ELSE [op EXCEPT !.pc = "done"]

Continue(op, out) ==
  LET next == IF op.kind = "saveRecords" /\ op.stmt.op = "create"
              THEN AfterPrepare(op, out)
              ELSE Settle(op, out)
  IN [next EXCEPT !.failed = IF out.ok THEN @ ELSE out.err,
                  !.issued = Append(@, op.stmt.op)]

\* the model stops a table from growing past MaxId rows and ids
WithinBounds(tab, st) ==
  st.op = "insert" =>
    /\ Len(tab.rows) + Len(st.rows) <= MaxId
    /\ tab.seq + Len(st.rows) <= MaxId

\* the database runs the statement queued in slot s
DatabaseRuns(s, io) ==
  LET op == ops[s]
      out == ExecStmt(tables[op.table], op.stmt, io)
  IN /\ op.pc = "stmt"
     /\ WithinBounds(tables[op.table], op.stmt)
     /\ tables' = [tables EXCEPT ![op.table] = out.tab]
     /\ localIds' = [localIds EXCEPT ![op.table] =
                       IF out.ok /\ op.stmt.op = "drop" THEN <<>> ELSE @ \o out.ids]

executeTransaction(s, io) ==
  /\ DatabaseRuns(s, io)
  /\ ops' = [ops EXCEPT ![s] =
               Continue(ops[s], ExecStmt(tables[ops[s].table], ops[s].stmt, io))]
  /\ UNCHANGED metaVars
  /\ UNCHANGED appVars

----------------------------------------------------------------------------
(* Metadata Cache: retrieveAllMetadata of describe.ts.  The refresh awaits *)
(* one call after another; pc names the call it is waiting for.  A store   *)
(* call runs in slot 1; the continuation of the refresh runs as soon as    *)
(* the awaited promise settles.                                            *)

RECORD_TYPE == "RecordType"
PAGE_LAYOUT_SECTION == "PageLayoutSection"
PAGE_LAYOUT_ITEM == "PageLayoutItem"
PICKLIST_VALUE == "PicklistValue"
LOCALIZATION == "Localization"

MetaTables == {RECORD_TYPE, PAGE_LAYOUT_SECTION, PAGE_LAYOUT_ITEM, PICKLIST_VALUE, LOCALIZATION}

\* Map.prototype.set on a map kept as a sequence of [k, v] in insertion order
MapSet(m, k, v) ==
  IF \E i \in 1..Len(m) : m[i].k = k
  THEN [i \in 1..Len(m) |-> IF m[i].k = k THEN [k |-> k, v |-> v] ELSE m[i]]
  ELSE Append(m, [k |-> k, v |-> v])

RECURSIVE MapSetAll(_, _)
\* from.forEach((v, k) => m.set(k, v))
MapSetAll(m, from) ==
  IF from = <<>> THEN m
  ELSE MapSetAll(MapSet(m, Head(from).k, Head(from).v), Tail(from))

MapValues(m) == [i \in 1..Len(m) |-> m[i].v]

RECURSIVE Flat(_)
\* Array.prototype.flat
Flat(ss) == IF ss = <<>> THEN <<>> ELSE Head(ss) \o Flat(Tail(ss))

RECURSIVE LayoutsById(_, _)
\* new Map(compositeResponse.map(r => [r.body.id, r.body]))
LayoutsById(m, bodies) ==
  IF bodies = <<>> THEN m
  ELSE LayoutsById(MapSet(m, Head(bodies).id, Head(bodies)), Tail(bodies))

\* every body of the composite response taken as a layout of its own
LayoutsNotDeduped(bodies) == bodies

\* the layouts of a composite response, one per layout id
Layouts(bodies) == MapValues(LayoutsById(<<>>, bodies))

MsgInvalidRecordType == "Invalid record type on Survey object. Contact your administrator."
MsgNoEditableFields == "No editable fields on Survey layout. Contact your administrator."
MsgUnexpected ==
  "Unexpected error occured while retrieving survey settings. Contact your administrator."

\* the catch block: the message thrown for an error whose .error is code
MessageFor(code) ==
  IF code = "invalid_record_type" THEN MsgInvalidRecordType
  ELSE IF code = "no_editable_fields" THEN MsgNoEditableFields
  ELSE MsgUnexpected

IdleRefresh ==
  [status |-> "idle", n |-> 0, pc |-> "", message |-> "", failedAt |-> "",
   cause |-> "", recordTypes |-> <<>>, layouts |-> <<>>, picklistOptionsMap |-> <<>>,
   fieldTypesMap |-> <<>>]

NoRemote == [recordTypes |-> <<>>, bodies |-> <<>>, localization |-> <<>>]

RemotePcs == {"fetchRecordTypes", "describeLayouts", "fetchLocalization"}

\* storeRecordTypesWithCompactLayout, after the record types are fetched
storeRecordTypesWithCompactLayout(r) == SaveRecordsOp(RECORD_TYPE, r.recordTypes, "")
\* storePageLayoutSections(layout)
storePageLayoutSections(layout) == SaveRecordsOp(PAGE_LAYOUT_SECTION, layout.sections, "")
\* storePageLayoutItems(layout)
storePageLayoutItems(layout) == SaveRecordsOp(PAGE_LAYOUT_ITEM, layout.items, "")
\* storeLocalization, after the bundle is fetched
storeLocalization(rem) == SaveRecordsOp(LOCALIZATION, rem.localization, "")

\* a refresh that keeps the picklist table as it is
ClearPicklistSkipped == SaveRecordsOp(PICKLIST_VALUE, <<>>, "")

\* await clearTable(DB_TABLE.PICKLIST_VALUE)
ClearPicklist == ClearTableOp(PICKLIST_VALUE)

\* a refresh that writes no picklist value
SavePicklistDropped(r) == SaveRecordsOp(PICKLIST_VALUE, <<>>, "")

\* saveRecords(DB_TABLE.PICKLIST_VALUE, picklistValues, undefined)
SavePicklist(r) ==
  SaveRecordsOp(PICKLIST_VALUE, Flat(MapValues(r.picklistOptionsMap)), "")

\* the object written under the field-type key: field name -> field type
FieldTypeObject(r) ==
  LET vs == MapValues(r.fieldTypesMap)
  IN MapSetAll(<<>>, [i \in 1..Len(vs) |-> [k |-> vs[i].name, v |-> vs[i].type]])

\* the store call awaited at pc
StoreCall(r, rem, pc) ==
  CASE pc = "clearRecordType" -> ClearTableOp(RECORD_TYPE)
    [] pc = "saveRecordTypes" -> storeRecordTypesWithCompactLayout(r)
    [] pc = "clearSection" -> ClearTableOp(PAGE_LAYOUT_SECTION)
    [] pc = "clearItem" -> ClearTableOp(PAGE_LAYOUT_ITEM)
    [] pc = "saveSections" -> storePageLayoutSections(Head(r.layouts))
    [] pc = "saveItems" -> storePageLayoutItems(Head(r.layouts))
    [] pc = "clearPicklist" -> ClearPicklist
    [] pc = "savePicklist" -> SavePicklist(r)
    [] pc = "clearLocalization" -> ClearTableOp(LOCALIZATION)
    [] OTHER -> storeLocalization(rem)

\* the order of the awaited calls
NextPc(pc) ==
  CASE pc = "clearRecordType" -> "fetchRecordTypes"
    [] pc = "fetchRecordTypes" -> "saveRecordTypes"
    [] pc = "saveRecordTypes" -> "clearSection"
    [] pc = "clearSection" -> "clearItem"
    [] pc = "clearItem" -> "describeLayouts"
    [] pc = "describeLayouts" -> "saveSections"
    [] pc = "saveSections" -> "saveItems"
    [] pc = "saveItems" -> "saveSections"
    [] pc = "clearPicklist" -> "savePicklist"
    [] pc = "savePicklist" -> "storageSave"
    [] pc = "storageSave" -> "clearLocalization"
    [] pc = "clearLocalization" -> "fetchLocalization"
    [] pc = "fetchLocalization" -> "saveLocalization"
    [] OTHER -> "resolve"

\* the locals of the refresh once the call awaited at pc has resolved
After(r, rem, pc) ==
  CASE pc = "fetchRecordTypes" -> [r EXCEPT !.recordTypes = rem.recordTypes]
    [] pc = "describeLayouts" -> [r EXCEPT !.layouts = Layouts(rem.bodies)]
    [] pc = "saveItems" ->
         [r EXCEPT !.picklistOptionsMap = MapSetAll(@, Head(r.layouts).picklistValuesMap),
                   !.fieldTypesMap = MapSetAll(@, Head(r.layouts).fieldTypesMap),
                   !.layouts = Tail(@)]
    [] OTHER -> r

\* storage.save({ key: FIELD_TYPE, data: fieldType }): the write is started
\* and not awaited
StorageSave(st, r) == [st EXCEPT !.writing = TRUE, !.data = FieldTypeObject(r)]

RECURSIVE Run(_, _, _)
\* the refresh runs from position pc until it has to wait: c holds its locals
\* (r), slot 1 (op) and the settings store
Run(c, rem, pc) ==
  IF pc = "resolve" THEN [c EXCEPT !.r.status = "resolved", !.r.pc = "done"]
  ELSE IF pc = "storageSave"
       THEN Run([c EXCEPT !.settings = StorageSave(c.settings, c.r)], rem, NextPc(pc))
  ELSE IF pc = "saveSections" /\ c.r.layouts = <<>> THEN Run(c, rem, "clearPicklist")
  ELSE IF pc \in RemotePcs THEN [c EXCEPT !.r.pc = pc]
  ELSE LET op == StoreCall(c.r, rem, pc)
       IN IF op.pc = "stmt" THEN [c EXCEPT !.r.pc = pc, !.op = op]
          ELSE Run([c EXCEPT !.r = After(c.r, rem, pc), !.op = op], rem, NextPc(pc))

\* the catch block of retrieveAllMetadata
Rejected(r, code) ==
  [r EXCEPT !.status = "rejected", !.failedAt = r.pc, !.cause = code,
            !.message = MessageFor(code)]

retrieveAllMetadata(snapshot) ==
  LET c == Run([r |-> [IdleRefresh EXCEPT !.status = "running", !.n = refresh.n + 1],
                op |-> ops[1], settings |-> settings], snapshot, "clearRecordType")
  IN /\ refresh.status # "running"
     /\ refresh.n < MaxRefresh
     /\ Free(1)
     /\ ~settings.writing
     /\ refresh' = c.r
     /\ ops' = [ops EXCEPT ![1] = c.op]
     /\ settings' = c.settings
     /\ remote' = snapshot
     /\ before' = [tables |-> tables, settings |-> settings.value]
     /\ UNCHANGED <<tables, localIds>>
     /\ UNCHANGED appVars

\* the database runs the statement the refresh waits for; the store call and,
\* once its promise settles, the refresh go on
RefreshStatement(io) ==
  LET op == Continue(ops[1], ExecStmt(tables[ops[1].table], ops[1].stmt, io))
      c == Run([r |-> After(refresh, remote, refresh.pc), op |-> op,
                settings |-> settings], remote, NextPc(refresh.pc))
  IN /\ refresh.status = "running"
     /\ DatabaseRuns(1, io)
     /\ IF op.pc = "stmt"
        THEN /\ ops' = [ops EXCEPT ![1] = op]
             /\ UNCHANGED <<refresh, settings>>
        ELSE IF op.promise = "resolved"
        THEN /\ ops' = [ops EXCEPT ![1] = c.op]
             /\ refresh' = c.r
             /\ settings' = c.settings
        ELSE IF op.promise = "rejected"
        THEN /\ ops' = [ops EXCEPT ![1] = op]
             /\ refresh' = Rejected(refresh, "")
             /\ UNCHANGED settings
        ELSE /\ ops' = [ops EXCEPT ![1] = op]
             /\ refresh' = [refresh EXCEPT !.failedAt = refresh.pc]
             /\ UNCHANGED settings
     /\ UNCHANGED <<remote, before>>
     /\ UNCHANGED appVars

\* the remote system answers the call the refresh waits for
RemoteSucceeds ==
  LET c == Run([r |-> After(refresh, remote, refresh.pc), op |-> ops[1],
                settings |-> settings], remote, NextPc(refresh.pc))
  IN /\ refresh.status = "running"
     /\ refresh.pc \in RemotePcs
     /\ refresh' = c.r
     /\ ops' = [ops EXCEPT ![1] = c.op]
     /\ settings' = c.settings
     /\ UNCHANGED <<tables, localIds, remote, before>>
     /\ UNCHANGED appVars

\* the remote call fails with an error whose .error is code
RemoteFails(code) ==
  /\ refresh.status = "running"
  /\ refresh.pc \in RemotePcs
  /\ refresh' = Rejected(refresh, code)
  /\ UNCHANGED <<tables, localIds, ops, remote, settings, before>>
  /\ UNCHANGED appVars

\* the settings store finishes the write it was asked for, or fails to
SettingsWrite(ok) ==
  /\ settings.writing
  /\ settings' = [settings EXCEPT !.writing = FALSE,
                                  !.value = IF ok THEN settings.data ELSE @]
  /\ UNCHANGED <<tables, localIds, ops, refresh, remote, before>>
  /\ UNCHANGED appVars

----------------------------------------------------------------------------
(* Layout Assembler: buildLayoutDetail of describe.ts *)

IdleLayout ==
  [pc |-> "idle", layoutId |-> "", sections |-> <<>>, status |-> "none", result |-> <<>>]

\* row.name for a row object returned by a select: undefined when the row
\* has no such column
Prop(row, name) ==
  IF \E i \in 1..Len(row) : row[i].k = name
  THEN row[CHOOSE i \in 1..Len(row) : row[i].k = name].v
  ELSE Undefined

\* the text of a value inside a template string or used as a property key
TextOf(v) ==
  CASE v.t = "text" -> v.s
    [] v.t = "integer" -> NumToChars(v.n)
    [] OTHER -> JSToChars(v)

\* '${text}' as SQLite reads it
QuotedLiteral(text) == ParseLiteral(<<Quote>> \o text \o <<Quote>>)

\* where layoutId='${layoutId}'
SectionsWhere(layoutId) == WhereEq("layoutId", QuotedLiteral(<<layoutId>>))

\* where sectionId in (${sectionIds.map(id => `'${id}'`).join(',')})
ItemsWhere(sections) ==
  WhereIn("sectionId",
          [i \in 1..Len(sections) |-> QuotedLiteral(TextOf(Prop(sections[i], "id")))])

\* every item, whatever its section
ItemsUngrouped(items, key) == items

RECURSIVE ItemsUnder(_, _)
\* sectionIdToItems[key]: the items whose sectionId reads as key, in the
\* order of the items
ItemsUnder(items, key) ==
  IF items = <<>> THEN <<>>
  ELSE (IF TextOf(Prop(Head(items), "sectionId")) = key THEN <<Head(items)>> ELSE <<>>)
         \o ItemsUnder(Tail(items), key)

\* !!item.required for a stored value
Required(v) ==
  CASE v.t = "integer" -> v.n # 0
    [] v.t = "text" -> v.s # <<>>
    [] OTHER -> FALSE

FieldDescriptor(item) ==
  [name |-> Prop(item, "fieldName"), label |-> Prop(item, "fieldLabel"),
   type |-> Prop(item, "fieldType"), required |-> Required(Prop(item, "required"))]

\* the layout object built from the two query results
BuildLayout(sections, items) ==
  [i \in 1..Len(sections) |->
     LET data == ItemsUnder(items, TextOf(Prop(sections[i], "id")))
     IN [id |-> Prop(sections[i], "id"),
         title |-> Prop(sections[i], "sectionLabel"),
         data |-> [j \in 1..Len(data) |-> FieldDescriptor(data[j])]]]

\* buildLayoutDetail up to its first await
buildLayoutDetail(layoutId) ==
  /\ assembly.pc \in {"idle", "done"}
  /\ Free(1)
  /\ ops' = [ops EXCEPT ![1] = GetRecordsOp(PAGE_LAYOUT_SECTION, SectionsWhere(layoutId))]
  /\ assembly' = [IdleLayout EXCEPT !.pc = "sections", !.layoutId = layoutId,
                                   !.status = "pending"]
  /\ UNCHANGED <<tables, localIds, overlap, sync, editor>>
  /\ UNCHANGED metaVars

\* the database runs the select buildLayoutDetail waits for; getRecords
\* settles and buildLayoutDetail goes on
LayoutStatement(io) ==
  LET op == Continue(ops[1], ExecStmt(tables[ops[1].table], ops[1].stmt, io))
  IN /\ assembly.pc \in {"sections", "items"}
     /\ DatabaseRuns(1, io)
     /\ IF op.promise = "rejected"
        THEN /\ ops' = [ops EXCEPT ![1] = op]
             /\ assembly' = [assembly EXCEPT !.pc = "done", !.status = "rejected"]
        ELSE IF assembly.pc = "sections"
        THEN /\ ops' = [ops EXCEPT ![1] = GetRecordsOp(PAGE_LAYOUT_ITEM, ItemsWhere(op.value))]
             /\ assembly' = [assembly EXCEPT !.pc = "items", !.sections = op.value]
        ELSE /\ ops' = [ops EXCEPT ![1] = op]
             /\ assembly' = [assembly EXCEPT !.pc = "done", !.status = "resolved",
                                              !.result = BuildLayout(assembly.sections, op.value)]
     /\ UNCHANGED <<overlap, sync, editor>>
     /\ UNCHANGED metaVars

----------------------------------------------------------------------------
(* Survey list screen: SyncButton of SurveyListHeaderButtons.tsx *)

(* The screen holds the list it shows (surveys, the prop of the button),   *)
(* the network state and the spinner; stored is the _syncStatus of the     *)
(* survey rows in the local store, from which refreshSurveys reloads the   *)
(* list.  pc is the position of the handler of the alert's OK button:      *)
(* "alert" while the alert is shown, "sync" while syncLocalSurveys runs,   *)
(* "refresh" while refreshSurveys runs, "done" when the handler returned,  *)
(* "rejected" when an await of it threw.  calls lists the calls the        *)
(* handler made; attempts and results list the remote calls of the sync;   *)
(* pressed keeps what the network, the list and the rows were when the     *)
(* icon was pressed.                                                       *)

SYNC_STATUS_UNSYNCED == "Unsynced"

SYNC_STATUS_SYNCED == "Synced"

Survey(id, status) == [id |-> id, syncStatus |-> status]

NoOutcome == [succeeded |-> 0, failed |-> 0]

IdleSync ==
  [pc |-> "idle", n |-> 0, surveys |-> <<>>, stored |-> <<>>,
   isNetworkConnected |-> FALSE, showsSpinner |-> FALSE,
   localSurveys |-> <<>>,
   pressed |-> [connected |-> FALSE, unsynced |-> 0, stored |-> <<>>],
   attempts |-> <<>>, results |-> <<>>, outcome |-> NoOutcome, calls |-> <<>>]

\* the button handing the whole list to the sync
LocalSurveysUnfiltered(surveys) == surveys

\* props.surveys.filter(s => s._syncStatus === SYNC_STATUS_UNSYNCED)
LocalSurveys(surveys) ==
  SelectSeq(surveys, LAMBDA s : s.syncStatus = SYNC_STATUS_UNSYNCED)

isSyncActive(surveys, isNetworkConnected) ==
  Len(LocalSurveys(surveys)) > 0 /\ isNetworkConnected

HandlerRunning == sync.pc \in {"alert", "sync", "refresh"}

\* The icon is pressed: isSyncActive && confirmSync() shows the alert.  The
\* handlers of the alert keep the localSurveys of this render.
onPress ==
  /\ ~HandlerRunning
  /\ sync.n < MaxSyncs
  /\ isSyncActive(sync.surveys, sync.isNetworkConnected)
  /\ sync' = [sync EXCEPT !.pc = "alert", !.n = @ + 1,
                          !.localSurveys = LocalSurveys(sync.surveys),
                          !.pressed = [connected |-> sync.isNetworkConnected,
                                       unsynced |-> Len(LocalSurveys(sync.surveys)),
                                       stored |-> sync.stored],
                          !.attempts = <<>>, !.results = <<>>,
                          !.outcome = NoOutcome, !.calls = <<>>]
  /\ UNCHANGED <<storeVars, metaVars, assembly, overlap, editor>>

\* CANCEL, or the alert dismissed
AlertCancel ==
  /\ sync.pc = "alert"
  /\ sync' = [sync EXCEPT !.pc = "idle"]
  /\ UNCHANGED <<storeVars, metaVars, assembly, overlap, editor>>

\* OK: setShowsSpinner(true), then syncLocalSurveys(localSurveys) is called
\* and awaited
AlertOk ==
  /\ sync.pc = "alert"
  /\ sync' = [sync EXCEPT !.pc = "sync", !.showsSpinner = TRUE,
                          !.calls = <<"setShowsSpinner(true)", "syncLocalSurveys">>]
  /\ UNCHANGED <<storeVars, metaVars, assembly, overlap, editor>>

MarkSynced(rows, id) ==
  [k \in 1..Len(rows) |->
     IF rows[k].id = id THEN Survey(id, SYNC_STATUS_SYNCED) ELSE rows[k]]

\* syncLocalSurveys takes the next record: the remote create-or-update call
\* succeeds (the local row is marked SYNCED) or fails (the row is left as
\* it is), and the sync goes on with the remainder.
createOrUpdate(ok) ==
  /\ sync.pc = "sync"
  /\ Len(sync.attempts) < Len(sync.localSurveys)
  /\ LET record == sync.localSurveys[Len(sync.attempts) + 1] IN
       sync' = [sync EXCEPT
                  !.attempts = Append(@, record.id),
                  !.results = Append(@, ok),
                  !.stored = IF ok THEN MarkSynced(@, record.id) ELSE @,
                  !.outcome = IF ok THEN [@ EXCEPT !.succeeded = @ + 1]
                              ELSE [@ EXCEPT !.failed = @ + 1]]
  /\ UNCHANGED <<storeVars, metaVars, assembly, overlap, editor>>

\* syncLocalSurveys resolves with the counts; the handler calls
\* props.refreshSurveys() and awaits it
SyncSettles ==
  /\ sync.pc = "sync"
  /\ Len(sync.attempts) = Len(sync.localSurveys)
  /\ sync' = [sync EXCEPT !.pc = "refresh",
                          !.calls = @ \o <<"settled", "refreshSurveys">>]
  /\ UNCHANGED <<storeVars, metaVars, assembly, overlap, editor>>

\* refreshSurveys settles: resolved, the list is reloaded from the store and
\* the handler calls setShowsSpinner(false); rejected, the await throws and
\* the handler ends there.
refreshSurveys(ok) ==
  /\ sync.pc = "refresh"
  /\ sync' = IF ok
             THEN [sync EXCEPT !.pc = "done", !.surveys = sync.stored,
                               !.showsSpinner = FALSE,
                               !.calls = Append(@, "setShowsSpinner(false)")]
             ELSE [sync EXCEPT !.pc = "rejected"]
  /\ UNCHANGED <<storeVars, metaVars, assembly, overlap, editor>>

\* the user edits survey k: the row and the list entry become UNSYNCED
EditSurvey(k) ==
  /\ ~HandlerRunning
  /\ k \in 1..Len(sync.stored)
  /\ sync.stored[k].syncStatus = SYNC_STATUS_SYNCED
  /\ sync' = [sync EXCEPT !.stored[k].syncStatus = SYNC_STATUS_UNSYNCED,
                          !.surveys[k].syncStatus = SYNC_STATUS_UNSYNCED]
  /\ UNCHANGED <<storeVars, metaVars, assembly, overlap, editor>>

NetworkChanges ==
  /\ sync' = [sync EXCEPT !.isNetworkConnected = ~@]
  /\ UNCHANGED <<storeVars, metaVars, assembly, overlap, editor>>

----------------------------------------------------------------------------
(* Survey editor: surveyReducer of SurveyListHeaderButtons.tsx *)

(* Objects are kept by reference: heap lists the survey of every state     *)
(* object made so far, a survey being its fields [k, v] in insertion       *)
(* order; object 1 is the module's initialState.  state is the object the  *)
(* editor holds, log the actions dispatched, thrown whether the last       *)
(* dispatch threw.                                                         *)

InitialStateRef == 1

IdleEditor == [heap |-> <<<<>>>>, state |-> InitialStateRef, log |-> <<>>, thrown |-> FALSE]

UpdateAction(name, value) ==
  [type |-> "UPDATE", field |-> [name |-> name, value |-> value], detail |-> <<>>]

LoadAction(detail) ==
  [type |-> "LOAD", field |-> [name |-> "", value |-> Undefined], detail |-> detail]

PlainAction(type) ==
  [type |-> type, field |-> [name |-> "", value |-> Undefined], detail |-> <<>>]

\* a reducer whose UPDATE writes the field into the survey of the state it
\* was given
surveyReducerInPlace(heap, state, action) ==
  CASE action.type = "UPDATE" ->
         [heap |-> [heap EXCEPT ![state] = MapSet(@, action.field.name, action.field.value)],
          state |-> state, thrown |-> FALSE]
    [] action.type = "LOAD" ->
         [heap |-> Append(heap, action.detail), state |-> Len(heap) + 1, thrown |-> FALSE]
    [] action.type = "CLEAR" ->
         [heap |-> heap, state |-> InitialStateRef, thrown |-> FALSE]
    [] OTHER -> [heap |-> heap, state |-> state, thrown |-> TRUE]

\* surveyReducer: the state object it returns (a new one for UPDATE and
\* LOAD, initialState itself for CLEAR), or the throw
surveyReducer(heap, state, action) ==
  CASE action.type = "UPDATE" ->
         [heap |-> Append(heap, MapSet(heap[state], action.field.name, action.field.value)),
          state |-> Len(heap) + 1, thrown |-> FALSE]
    [] action.type = "LOAD" ->
         [heap |-> Append(heap, action.detail), state |-> Len(heap) + 1, thrown |-> FALSE]
    [] action.type = "CLEAR" ->
         [heap |-> heap, state |-> InitialStateRef, thrown |-> FALSE]
    [] OTHER -> [heap |-> heap, state |-> state, thrown |-> TRUE]

\* useReducer(surveyReducer, initialState): dispatch(action)
dispatch(action) ==
  /\ Len(editor.log) < MaxActions
  /\ LET next == surveyReducer(editor.heap, editor.state, action)
     IN editor' = [heap |-> next.heap, state |-> next.state,
                   log |-> Append(editor.log, action), thrown |-> next.thrown]
  /\ UNCHANGED <<storeVars, metaVars, assembly, overlap, sync>>

----------------------------------------------------------------------------
(* The Local Store used by one caller at a time on the survey table. *)

Entry(k, v) == [k |-> k, v |-> v]

RecA == <<Entry("name", Str(<<"a">>)), Entry("count", Num(1))>>
RecB == <<Entry("name", Str(<<"b">>)), Entry("count", Num(2))>>

\* all batches of at most n records of R
Batches(R, n) == UNION {[1..k -> R] : k \in 0..n}

PrimaryKeys == {"", "name", "id"}

Wheres == {WhereUndefined, WhereNull, WhereEmpty, WhereEq("name", SText(<<"a">>))}

Init ==
  /\ tables = [t \in TableNames |-> NoTable]
  /\ localIds = [t \in TableNames |-> <<>>]
  /\ ops = [s \in Slots |-> IdleOp]
  /\ refresh = IdleRefresh
  /\ remote = NoRemote
  /\ settings = [value |-> <<>>, writing |-> FALSE, data |-> <<>>]
  /\ before = [tables |-> [t \in TableNames |-> NoTable], settings |-> <<>>]
  /\ assembly = IdleLayout
  /\ overlap = [s \in Slots |-> FALSE]
  /\ sync = IdleSync
  /\ editor = IdleEditor

Next ==
  \/ getAllRecords(1, "Survey")
  \/ \E w \in Wheres : getRecords(1, "Survey", w)
  \/ \E records \in Batches({RecA, RecB}, MaxBatch), pk \in PrimaryKeys :
       saveRecords(1, "Survey", records, pk)
  \/ \E m \in {<<>>, getFieldTypeMappings(RecA)}, pk \in PrimaryKeys :
       prepareTable(1, "Survey", m, pk)
  \/ \E id \in {Num(i) : i \in 1..MaxId} \cup {Undefined} : deleteRecord(1, "Survey", id)
  \/ clearTable(1, "Survey")
  \/ \E io \in BOOLEAN : executeTransaction(1, io)

Spec == Init /\ [][Next]_vars

----------------------------------------------------------------------------
(* Properties of the Local Store *)

Range(seq) == {seq[i] : i \in 1..Len(seq)}

\* C1: whenever a statement issued on behalf of a store operation fails, the
\* promise of the operation is rejected with that statement's error and the
\* operation issues no further statement; saveRecords included when its
\* create-table statement is the one that fails.  (A getRecords call made
\* without a filter is rejected before its statement is issued and is left
\* out here.)
C1_FailedStatementRejects ==
  \A s \in Slots :
    (ops[s].failed # "" /\ ~(ops[s].kind = "getRecords" /\ WhereFalsy(ops[s].stmt.where))) =>
      /\ ops[s].promise = "rejected"
      /\ ops[s].error = ops[s].failed
      /\ ops[s].pc = "done"

\* C4: getRecords called with no filter (undefined, null, '') is rejected with
\* the invalid-argument message whatever the store holds, and getAllRecords is
\* never rejected with it: it is rejected only with the error of its select.
C4_MissingFilterRejected ==
  \A s \in Slots :
    /\ (ops[s].kind = "getRecords" /\ WhereFalsy(ops[s].stmt.where)) =>
         ops[s].promise = "rejected" /\ ops[s].error = ErrInvalidArgument
    /\ ops[s].kind = "getAllRecords" =>
         /\ ops[s].error # ErrInvalidArgument
         /\ ops[s].promise = "rejected" =>
              ops[s].failed # "" /\ ops[s].error = ops[s].failed

\* C4 witness: getRecords without a filter has run to its end on a table that
\* holds rows, and its promise is rejected with the invalid-argument message.
C4_Witness ==
  \E s \in Slots :
    /\ ops[s].kind = "getRecords"
    /\ ops[s].stmt.where = WhereUndefined
    /\ ops[s].pc = "done"
    /\ ops[s].issued = <<"select">>
    /\ ops[s].error = ErrInvalidArgument
    /\ tables[ops[s].table].rows # <<>>

HasLocalId(tab) == tab.exists /\ ColIndex(tab.cols, LocalId) # 0
LocalIdOf(tab, r) == tab.rows[r][ColIndex(tab.cols, LocalId)].n

\* C8: in a table created without an explicit primary key the _localIds
\* handed out since the table was created, those of deleted rows included,
\* are strictly increasing in the order they were assigned (so no two are
\* equal and none is reused); every row carries one of them, and the rows,
\* which lie in insertion order, carry increasing ids.
C8_LocalIdsIncrease ==
  \A t \in TableNames :
    HasLocalId(tables[t]) =>
      /\ \A i, j \in 1..Len(localIds[t]) : i < j => localIds[t][i] < localIds[t][j]
      /\ \A r \in 1..Len(tables[t].rows) :
           /\ tables[t].rows[r][ColIndex(tables[t].cols, LocalId)].t = "integer"
           /\ LocalIdOf(tables[t], r) \in Range(localIds[t])
      /\ \A r1, r2 \in 1..Len(tables[t].rows) :
           r1 < r2 => LocalIdOf(tables[t], r1) < LocalIdOf(tables[t], r2)

\* C8 witness: a saveRecords has just inserted a row into a table from which
\* the row holding the largest id so far had been deleted before.
C8_Witness ==
  \E s \in Slots :
    LET tab == tables[ops[s].table]
        ids == localIds[ops[s].table]
    IN /\ ops[s].kind = "saveRecords"
       /\ ops[s].promise = "resolved"
       /\ Len(ops[s].records) = 1
       /\ HasLocalId(tab)
       /\ Len(ids) >= 2
       /\ ids[Len(ids) - 1] \notin {LocalIdOf(tab, r) : r \in 1..Len(tab.rows)}
       /\ ids[Len(ids)] \in {LocalIdOf(tab, r) : r \in 1..Len(tab.rows)}

PkColumns(tab) == {i \in 1..Len(tab.cols) : tab.cols[i].pk}

\* C9: a table created by the create-table statement of prepareTable has
\* exactly one primary-key column: the auto-increment _localId when
\* primaryKey is unset, the field named by primaryKey (and no _localId
\* column) when it is set.
C9_OnePrimaryKey ==
  [][\A s \in Slots :
       LET t == ops[s].table
       IN (/\ ops[s].pc = "stmt"
           /\ ops[s].stmt.op = "create"
           /\ ops'[s].issued = Append(ops[s].issued, "create")
           /\ ~tables[t].exists
           /\ tables'[t].exists) =>
          /\ Cardinality(PkColumns(tables'[t])) = 1
          /\ \A i \in PkColumns(tables'[t]) :
               IF ops[s].primaryKey = ""
               THEN tables'[t].cols[i].name = LocalId /\ tables'[t].cols[i].auto
               ELSE tables'[t].cols[i].name = ops[s].primaryKey
          /\ ops[s].primaryKey # "" => ColIndex(tables'[t].cols, LocalId) = 0]_vars

\* C18: a getRecords call made without a filter (undefined, null or '')
\* has no statement run by the database on its behalf: it is rejected with
\* the invalid-argument error and that is all.
C18_NoStatementWithoutFilter ==
  \A s \in Slots :
    (ops[s].kind = "getRecords" /\ WhereFalsy(ops[s].stmt.where)) =>
      /\ ops[s].promise = "rejected"
      /\ ops[s].error = ErrInvalidArgument
      /\ ops[s].pc = "done"
      /\ ops[s].issued = <<>>

\* C14: a saveRecords call with an empty list of records resolves to the
\* empty list at once, whatever the table and the primary key: it queues no
\* statement, the database runs none for it, and the tables are left as
\* they were, so that a table that did not exist still does not exist.
C14_EmptySaveDoesNothing ==
  [][\A s \in Slots :
       (ops'[s].kind = "saveRecords" /\ Len(ops'[s].records) = 0) =>
         /\ ops'[s].promise = "resolved"
         /\ ops'[s].value = <<>>
         /\ ops'[s].pc = "done"
         /\ ops'[s].stmt = NoStmt
         /\ ops'[s].issued = <<>>
         /\ tables' = tables
         /\ localIds' = localIds]_vars

\* C14: saveRecords was called with an empty list and a primary key on a
\* table that does not exist; it has resolved and the table does not exist.
C14_Witness ==
  \E s \in Slots :
    /\ ops[s].kind = "saveRecords"
    /\ ops[s].records = <<>>
    /\ ops[s].primaryKey = "name"
    /\ ops[s].promise = "resolved"
    /\ ~tables[ops[s].table].exists

\* C15: the create-table statement of a saveRecords call leaves the rows of
\* the table as they are, and when its insert statement has run the table
\* holds either the rows it held followed by one new row for every record
\* of the batch, and then the promise is resolved, or exactly the rows it
\* held, and then the promise is rejected; never those rows and some of the
\* batch.
C15_AllOrNothing ==
  [][\A s \in Slots :
       (ops[s].kind = "saveRecords" /\ ops[s].pc = "stmt" /\ ops' # ops) =>
         LET rows == tables[ops[s].table].rows
             rows2 == tables'[ops[s].table].rows
             n == Len(ops[s].records)
         IN IF ops[s].stmt.op = "create" THEN rows2 = rows
            ELSE /\ ops'[s].promise \in {"resolved", "rejected"}
                 /\ ops'[s].promise = "resolved" =>
                      /\ Len(rows2) = Len(rows) + n
                      /\ SubSeq(rows2, 1, Len(rows)) = rows
                 /\ ops'[s].promise = "rejected" => rows2 = rows]_vars

\* C15: a batch of two records was rejected because its second record has
\* the primary key of a row of the table; the table holds that row alone.
C15_Witness ==
  \E s \in Slots :
    /\ ops[s].kind = "saveRecords"
    /\ ops[s].records = <<RecA, RecB>>
    /\ ops[s].promise = "rejected"
    /\ ops[s].error = ErrConstraint
    /\ Len(tables[ops[s].table].rows) = 1

----------------------------------------------------------------------------
(* Writing values of every kind: a caller saves survey rows, updates them  *)
(* and reads the table.                                                    *)

ValA == <<Entry("name", Str(<<"a", Quote>>)), Entry("flag", True)>>
ValB == <<Entry("name", Str(<<>>)), Entry("flag", False)>>
ValC == <<Entry("name", Null), Entry("flag", Num(0))>>
ValD == <<Entry("name", Undefined), Entry("flag", Num(2))>>

Updates ==
  {<<Entry("flag", Null), Entry("name", Str(<<"b">>))>>,
   <<Entry("flag", Undefined), Entry("name", Str(<<"b">>))>>,
   <<Entry("flag", Null)>>}

FieldValues ==
  {<<Entry("name", Str(<<"a", Quote>>))>>,
   <<Entry("name", Str(<<"b">>)), Entry("flag", Num(0))>>,
   <<Entry("flag", Num(2))>>}

UpdateWheres == {WhereEmpty, WhereEq("flag", SInt(2))}

NextValues ==
  \/ \E records \in Batches({ValA, ValB, ValC, ValD}, MaxBatch) :
       saveRecords(1, "Survey", records, "")
  \/ \E record \in Updates, w \in UpdateWheres : updateRecord(1, "Survey", record, w)
  \/ \E fv \in FieldValues, w \in UpdateWheres : updateFieldValues(1, "Survey", fv, w)
  \/ getAllRecords(1, "Survey")
  \/ \E io \in BOOLEAN : executeTransaction(1, io)

SpecValues == Init /\ [][NextValues]_vars

\* the value of field k in a row object returned by a select
FieldOf(row, k) == row[CHOOSE i \in 1..Len(row) : row[i].k = k].v

\* what the coercion rule is said to store for a JavaScript value
SaidStored(v) ==
  CASE v.t = "boolean" -> SInt(v.n)
    [] ~Truthy(v) -> SText(<<>>)
    [] v.t = "string" -> SText(v.s)
    [] OTHER -> SInt(v.n)

\* C2: every field value of a record written by saveRecords is stored (and
\* so returned by getAllRecords, which returns the rows as they are stored)
\* as 1 for true and 0 for false, as empty text for a falsy non-boolean
\* value, as the same string for a non-empty string (quotes included), and
\* as itself otherwise.
C2_CoercionRoundTrip ==
  \A s \in Slots :
    LET w == ops[s]
        tab == tables[w.table]
        n == Len(tab.rows) - Len(w.records)
    IN (w.kind = "saveRecords" /\ w.promise = "resolved" /\ w.records # <<>>) =>
       \A i \in 1..Len(w.records) : \A j \in 1..Len(w.records[i]) :
         FieldOf(RowObject(tab, tab.rows[n + i]), w.records[i][j].k)
           = SaidStored(w.records[i][j].v)

\* the value the code puts in a column of the given type for value v
Coerced(type, v) == ApplyAffinity(type, ParseLiteral(JSToChars(ConvertValue(v))))

NamesField(record, name) == \E i \in 1..Len(record) : record[i].k = name
ValueIn(record, name) == FieldOf(record, name)

\* C3: when updateRecord succeeds, in every row matching the filter each
\* field whose value in the record is null or undefined (or that the record
\* does not name) keeps its stored value and every other field of the record
\* holds its coerced value; the rows not matching are unchanged.
C3_NullFieldsKept ==
  [][\A s \in Slots :
       LET t == ops[s].table
           tab == tables[t]
           record == ops[s].records[1]
       IN (/\ ops[s].kind = "updateRecord" /\ ops[s].pc = "stmt"
           /\ ops'[s].pc = "done" /\ ops'[s].promise = "resolved") =>
          /\ Len(tables'[t].rows) = Len(tab.rows)
          /\ \A r \in 1..Len(tab.rows) : \A c \in 1..Len(tab.cols) :
               tables'[t].rows[r][c] =
                 IF /\ Matches(tab, tab.rows[r], ops[s].stmt.where)
                    /\ NamesField(record, tab.cols[c].name)
                    /\ ValueIn(record, tab.cols[c].name).t \notin {"null", "undefined"}
                 THEN Coerced(tab.cols[c].type, ValueIn(record, tab.cols[c].name))
                 ELSE tab.rows[r][c]]_vars

\* what a column of the given type holds when it holds the value v
Given(type, v) ==
  ApplyAffinity(type, IF v.t = "string" THEN SText(v.s) ELSE SInt(v.n))

\* C10: updateFieldValues with string, number or boolean values settles, and
\* when it resolves every row matching the filter holds the given value in
\* each named field (a string with quotes verbatim); the other fields of
\* those rows and the rows not matching are unchanged.
C10_FieldValuesStored ==
  [][\A s \in Slots :
       LET t == ops[s].table
           tab == tables[t]
           fieldValues == ops[s].records[1]
       IN /\ (ops'[s].kind = "updateFieldValues" /\ ops'[s].pc = "done") =>
               ops'[s].promise \in {"resolved", "rejected"}
          /\ (/\ ops[s].kind = "updateFieldValues" /\ ops[s].pc = "stmt"
              /\ ops'[s].pc = "done" /\ ops'[s].promise = "resolved") =>
             /\ Len(tables'[t].rows) = Len(tab.rows)
             /\ \A r \in 1..Len(tab.rows) : \A c \in 1..Len(tab.cols) :
                  tables'[t].rows[r][c] =
                    IF /\ Matches(tab, tab.rows[r], ops[s].stmt.where)
                       /\ NamesField(fieldValues, tab.cols[c].name)
                    THEN Given(tab.cols[c].type, ValueIn(fieldValues, tab.cols[c].name))
                    ELSE tab.rows[r][c]]_vars

----------------------------------------------------------------------------
(* The Metadata Cache refreshed again and again from a remote system that  *)
(* serves one of three snapshots, while the database and the remote system *)
(* may fail under any call.                                                *)

MetaRow(key, id, label) == <<Entry(key, Str(<<id>>)), Entry("label", Str(<<label>>))>>

Layout(id, sections, items, picklists, fieldTypes) ==
  [id |-> id, sections |-> sections, items |-> items,
   picklistValuesMap |-> picklists, fieldTypesMap |-> fieldTypes]

FieldType(name, type) == [k |-> name, v |-> [name |-> name, type |-> type]]

\* one record type, one layout with a picklist field
SnapshotOne ==
  [recordTypes |-> <<MetaRow("recordTypeId", "r1", "one")>>,
   bodies |-> <<Layout("L1", <<MetaRow("sectionId", "s1", "one")>>,
                       <<MetaRow("fieldName", "f1", "one")>>,
                       <<[k |-> "f1", v |-> <<MetaRow("value", "x", "one")>>]>>,
                       <<FieldType("f1", "picklist")>>)>>,
   localization |-> <<MetaRow("key", "k1", "one")>>]

LayoutShared ==
  Layout("L1", <<MetaRow("sectionId", "s1", "two")>>, <<MetaRow("fieldName", "f1", "two")>>,
         <<[k |-> "f1", v |-> <<MetaRow("value", "x", "two")>>]>>,
         <<FieldType("f1", "picklist")>>)

\* three record types, two of them on the same layout; both layouts use the
\* same global picklist, which has one more option on the second layout
SnapshotTwo ==
  [recordTypes |-> <<MetaRow("recordTypeId", "r1", "two"), MetaRow("recordTypeId", "r2", "two"),
                     MetaRow("recordTypeId", "r3", "two")>>,
   bodies |-> <<LayoutShared, LayoutShared,
                Layout("L2", <<MetaRow("sectionId", "s2", "two")>>,
                       <<MetaRow("fieldName", "f1", "two")>>,
                       <<[k |-> "f1", v |-> <<MetaRow("value", "x", "two"),
                                              MetaRow("value", "y", "two")>>]>>,
                       <<FieldType("f1", "picklist")>>)>>,
   localization |-> <<MetaRow("key", "k1", "two")>>]

\* no picklist field and an empty localization bundle
SnapshotPlain ==
  [recordTypes |-> <<MetaRow("recordTypeId", "r1", "plain")>>,
   bodies |-> <<Layout("L3", <<MetaRow("sectionId", "s3", "plain")>>,
                       <<MetaRow("fieldName", "f2", "plain")>>, <<>>,
                       <<FieldType("f2", "string")>>)>>,
   localization |-> <<>>]

Snapshots == {SnapshotOne, SnapshotTwo, SnapshotPlain}

ErrorCodes == {"invalid_record_type", "no_editable_fields", "timeout"}

NextRefresh ==
  \/ \E snapshot \in Snapshots : retrieveAllMetadata(snapshot)
  \/ \E io \in BOOLEAN : RefreshStatement(io)
  \/ RemoteSucceeds
  \/ \E code \in ErrorCodes : RemoteFails(code)
  \/ \E ok \in BOOLEAN : SettingsWrite(ok)

SpecRefresh == Init /\ [][NextRefresh]_vars

----------------------------------------------------------------------------
(* Properties of the Metadata Cache *)

PcOrder ==
  <<"clearRecordType", "fetchRecordTypes", "saveRecordTypes", "clearSection", "clearItem",
    "describeLayouts", "saveSections", "saveItems", "clearPicklist", "savePicklist",
    "clearLocalization", "fetchLocalization", "saveLocalization">>

\* the place of an awaited call in the refresh; the end of the refresh
\* comes after all of them
PcIndex(pc) ==
  IF \E i \in 1..Len(PcOrder) : PcOrder[i] = pc
  THEN CHOOSE i \in 1..Len(PcOrder) : PcOrder[i] = pc
  ELSE Len(PcOrder) + 1

\* the step (1 to 5) a table, or an awaited call, belongs to
StepOf(t) ==
  CASE t = RECORD_TYPE -> 1
    [] t \in {PAGE_LAYOUT_SECTION, PAGE_LAYOUT_ITEM} -> 2
    [] t = PICKLIST_VALUE -> 3
    [] OTHER -> 5

StepOfPc(pc) ==
  IF PcIndex(pc) <= 3 THEN 1
  ELSE IF PcIndex(pc) <= 8 THEN 2
  ELSE IF PcIndex(pc) <= 10 THEN 3
  ELSE 5

ClearPcOf(t) ==
  CASE t = RECORD_TYPE -> "clearRecordType"
    [] t = PAGE_LAYOUT_SECTION -> "clearSection"
    [] t = PAGE_LAYOUT_ITEM -> "clearItem"
    [] t = PICKLIST_VALUE -> "clearPicklist"
    [] OTHER -> "clearLocalization"

\* the fields of a stored row, its _localId left out
RowFields(tab, row) == {e \in Range(RowObject(tab, row)) : e.k # LocalId}
StoredRows(t) == {RowFields(tables[t], tables[t].rows[i]) : i \in 1..Len(tables[t].rows)}

\* the rows a snapshot has for a table
SnapshotRecords(rem, t) ==
  CASE t = RECORD_TYPE -> Range(rem.recordTypes)
    [] t = PAGE_LAYOUT_SECTION -> UNION {Range(b.sections) : b \in Range(rem.bodies)}
    [] t = PAGE_LAYOUT_ITEM -> UNION {Range(b.items) : b \in Range(rem.bodies)}
    [] t = PICKLIST_VALUE ->
         UNION {Range(m.v) : m \in UNION {Range(b.picklistValuesMap) : b \in Range(rem.bodies)}}
    [] OTHER -> Range(rem.localization)

SnapshotRows(rem, t) ==
  {{Entry(e.k, SText(e.v.s)) : e \in Range(record)} : record \in SnapshotRecords(rem, t)}

\* the store calls retrieveAllMetadata makes itself: clearTable and saveRecords
DirectStoreCalls ==
  {"clearRecordType", "clearSection", "clearItem", "clearPicklist", "savePicklist",
   "clearLocalization"}

\* C5: once a step of the refresh has failed, the refresh is rejected with
\* the invalid-record-type message iff the failure carries that code, the
\* no-editable-fields message iff it carries that one and the generic
\* message otherwise, and it has gone no further than the failed step.
\* Stated for the failures of the statements issued by the store calls that
\* retrieveAllMetadata makes itself.
C5_FailureRejects ==
  refresh.failedAt \in DirectStoreCalls =>
    /\ refresh.status = "rejected"
    /\ refresh.pc = refresh.failedAt
    /\ refresh.message \in {MsgInvalidRecordType, MsgNoEditableFields, MsgUnexpected}
    /\ refresh.message = MsgInvalidRecordType <=> refresh.cause = "invalid_record_type"
    /\ refresh.message = MsgNoEditableFields <=> refresh.cause = "no_editable_fields"

ClearedAlready(t) == PcIndex(ClearPcOf(t)) < PcIndex(refresh.failedAt)

C7_WholesaleReplacement ==
  \A t \in MetaTables :
    (\/ refresh.status = "resolved"
     \/ refresh.status = "running" /\ PcIndex(ClearPcOf(t)) < PcIndex(refresh.pc)) =>
      StoredRows(t) \subseteq SnapshotRows(remote, t)

\* C7 witness: a refresh has resolved over tables that all held the rows of
\* another snapshot, and every table holds exactly the rows of the new one.
C7_Witness ==
  /\ refresh.status = "resolved"
  /\ \A t \in MetaTables :
       /\ before.tables[t].rows # <<>>
       /\ tables[t].rows # <<>>
       /\ StoredRows(t) = SnapshotRows(remote, t)
       /\ \A i \in 1..Len(before.tables[t].rows) :
            RowFields(before.tables[t], before.tables[t].rows[i]) \notin StoredRows(t)

\* C12: when the refresh has resolved, the settings store holds under the
\* field-type key the mapping field name -> field type accumulated by this
\* refresh, and no write of it is still under way (so a write that failed
\* cannot go with a resolved refresh).
C12_SettingsWritten ==
  refresh.status = "resolved" =>
    /\ ~settings.writing
    /\ settings.value = FieldTypeObject(refresh)

\* the layout ids of the bodies, each once, in the order they first appear
LayoutIdsOf(bodies) ==
  LET first == {i \in 1..Len(bodies) : \A j \in 1..(i - 1) : bodies[j].id # bodies[i].id}
      nth(n) == CHOOSE i \in first : Cardinality({j \in first : j < i}) = n - 1
  IN [n \in 1..Cardinality(first) |-> bodies[nth(n)].id]

\* the last body that has the layout id
BodyOf(bodies, id) ==
  bodies[CHOOSE i \in 1..Len(bodies) :
           bodies[i].id = id /\ \A j \in (i + 1)..Len(bodies) : bodies[j].id # id]

\* the layouts as the refresh should process them: one body per layout id
OncePerLayout(bodies) ==
  [n \in 1..Len(LayoutIdsOf(bodies)) |-> BodyOf(bodies, LayoutIdsOf(bodies)[n])]

\* the picklist field names of the layouts, each once, in order of first use
PicklistFields(layouts) ==
  LET names == Flat([n \in 1..Len(layouts) |->
                       [i \in 1..Len(layouts[n].picklistValuesMap) |->
                          layouts[n].picklistValuesMap[i].k]])
      first == {i \in 1..Len(names) : \A j \in 1..(i - 1) : names[j] # names[i]}
      nth(n) == CHOOSE i \in first : Cardinality({j \in first : j < i}) = n - 1
  IN [n \in 1..Cardinality(first) |-> names[nth(n)]]

\* the options of field name in the last of the layouts that defines it
LastOptions(layouts, name) ==
  LET defines(n) == \E i \in 1..Len(layouts[n].picklistValuesMap) :
                      layouts[n].picklistValuesMap[i].k = name
      last == CHOOSE n \in 1..Len(layouts) :
                defines(n) /\ \A m \in (n + 1)..Len(layouts) : ~defines(m)
      m == layouts[last].picklistValuesMap
  IN m[CHOOSE i \in 1..Len(m) : m[i].k = name].v

\* the rows of table t in order, each as the set of its fields
StoredSeq(t) ==
  [i \in 1..Len(tables[t].rows) |-> RowFields(tables[t], tables[t].rows[i])]

\* records as the rows they are stored as
AsRows(records) ==
  [i \in 1..Len(records) |-> {Entry(e.k, SText(e.v.s)) : e \in Range(records[i])}]

\* C17: when the refresh has resolved, the section table holds the sections
\* and the item table the items of each layout id of the composite response
\* once, however many bodies carry that id, and the picklist table holds for
\* every picklist field the options of the last processed layout that
\* defines it, and nothing else.
C17_StoredOncePerLayout ==
  refresh.status = "resolved" =>
    LET layouts == OncePerLayout(remote.bodies)
        fields == PicklistFields(layouts)
    IN /\ StoredSeq(PAGE_LAYOUT_SECTION) =
            AsRows(Flat([n \in 1..Len(layouts) |-> layouts[n].sections]))
       /\ StoredSeq(PAGE_LAYOUT_ITEM) =
            AsRows(Flat([n \in 1..Len(layouts) |-> layouts[n].items]))
       /\ StoredSeq(PICKLIST_VALUE) =
            AsRows(Flat([n \in 1..Len(fields) |-> LastOptions(layouts, fields[n])]))

\* C17: a refresh has resolved on a response of three bodies, two of them
\* with the same layout id, whose two layouts give different options to the
\* same picklist field: two sections, two items and the two options of the
\* second layout are stored.
C17_Witness ==
  /\ refresh.status = "resolved"
  /\ Len(remote.bodies) = 3
  /\ remote.bodies[1].id = remote.bodies[2].id
  /\ remote.bodies[1].picklistValuesMap # remote.bodies[3].picklistValuesMap
  /\ Len(tables[PAGE_LAYOUT_SECTION].rows) = 2
  /\ Len(tables[PAGE_LAYOUT_ITEM].rows) = 2
  /\ StoredSeq(PICKLIST_VALUE) = AsRows(remote.bodies[3].picklistValuesMap[1].v)

----------------------------------------------------------------------------
(* The Layout Assembler reading a cache of sections and items that         *)
(* saveRecords wrote.                                                      *)

SectionRow(id, layoutId) ==
  <<Entry("id", Str(<<id>>)), Entry("layoutId", Str(<<layoutId>>)),
    Entry("sectionLabel", Str(<<"title", id>>))>>

ItemRow(sectionId, name, required) ==
  <<Entry("sectionId", Str(<<sectionId>>)), Entry("fieldName", Str(<<name>>)),
    Entry("fieldLabel", Str(<<"label", name>>)), Entry("fieldType", Str(<<"string">>)),
    Entry("required", required)>>

SectionLists ==
  {<<SectionRow("s1", "L1"), SectionRow("s2", "L1"), SectionRow("s3", "L2")>>,
   <<SectionRow("s2", "L1"), SectionRow("s3", "L2"), SectionRow("s1", "L1")>>,
   <<SectionRow("s3", "L2")>>,
   <<>>}

ItemRows ==
  {ItemRow("s1", "f1", True), ItemRow("s1", "f2", False), ItemRow("s2", "f3", False),
   ItemRow("s3", "f4", True)}

ItemLists == UNION {[1..k -> ItemRows] : k \in 0..MaxItems}

LayoutIds == {"L1", "L2", "L9"}

\* the table saveRecords(t, records, undefined) leaves where there was none,
\* and the _localIds it hands out
Saved(t, records) ==
  IF records = <<>> THEN Succeeds(<<>>, NoTable, <<>>)
  ELSE ExecStmt(ExecStmt(NoTable, PrepareStmt(t, getFieldTypeMappings(records[1]), ""),
                         FALSE).tab,
                SaveStmt(t, records), FALSE)

InitLayout ==
  \E sections \in SectionLists, items \in ItemLists :
    /\ tables = [t \in TableNames |->
                   IF t = PAGE_LAYOUT_SECTION THEN Saved(t, sections).tab
                   ELSE IF t = PAGE_LAYOUT_ITEM THEN Saved(t, items).tab
                   ELSE NoTable]
    /\ localIds = [t \in TableNames |->
                     IF t = PAGE_LAYOUT_SECTION THEN Saved(t, sections).ids
                     ELSE IF t = PAGE_LAYOUT_ITEM THEN Saved(t, items).ids
                     ELSE <<>>]
    /\ before = [tables |-> tables, settings |-> <<>>]
    /\ ops = [s \in Slots |-> IdleOp]
    /\ refresh = IdleRefresh
    /\ remote = NoRemote
    /\ settings = [value |-> <<>>, writing |-> FALSE, data |-> <<>>]
    /\ assembly = IdleLayout
    /\ overlap = [s \in Slots |-> FALSE]
    /\ sync = IdleSync
    /\ editor = IdleEditor

NextLayout ==
  \/ \E layoutId \in LayoutIds : buildLayoutDetail(layoutId)
  \/ \E io \in BOOLEAN : LayoutStatement(io)

SpecLayout == InitLayout /\ [][NextLayout]_vars

\* the rows of a table, as the objects a select returns, whose field name
\* holds value, in row order
RowsWith(tab, name, value) ==
  SelectSeq([i \in 1..Len(tab.rows) |-> RowObject(tab, tab.rows[i])],
            LAMBDA o : Prop(o, name) = value)

----------------------------------------------------------------------------
(* The survey list screen: the user edits surveys, the network comes and   *)
(* goes, and syncs are confirmed or cancelled; each remote call of a sync  *)
(* and each reload of the list may fail.                                   *)

SurveyLists ==
  UNION {[1..k -> {SYNC_STATUS_SYNCED, SYNC_STATUS_UNSYNCED}] : k \in 0..MaxSurveys}

InitSync ==
  \E statuses \in SurveyLists, connected \in BOOLEAN :
    /\ sync = [IdleSync EXCEPT
                 !.stored = [k \in 1..Len(statuses) |-> Survey(k, statuses[k])],
                 !.surveys = [k \in 1..Len(statuses) |-> Survey(k, statuses[k])],
                 !.isNetworkConnected = connected]
    /\ tables = [t \in TableNames |-> NoTable]
    /\ localIds = [t \in TableNames |-> <<>>]
    /\ ops = [s \in Slots |-> IdleOp]
    /\ refresh = IdleRefresh
    /\ remote = NoRemote
    /\ settings = [value |-> <<>>, writing |-> FALSE, data |-> <<>>]
    /\ before = [tables |-> tables, settings |-> <<>>]
    /\ assembly = IdleLayout
    /\ overlap = [s \in Slots |-> FALSE]
    /\ editor = IdleEditor

NextSync ==
  \/ onPress
  \/ AlertCancel
  \/ AlertOk
  \/ \E ok \in BOOLEAN : createOrUpdate(ok)
  \/ SyncSettles
  \/ \E ok \in BOOLEAN : refreshSurveys(ok)
  \/ \E k \in 1..MaxSurveys : EditSurvey(k)
  \/ NetworkChanges

SpecSync == InitSync /\ [][NextSync]_vars

Ids(rows) == [k \in 1..Len(rows) |-> rows[k].id]

StatusOf(rows, id) ==
  LET k == CHOOSE k \in 1..Len(rows) : rows[k].id = id IN rows[k].syncStatus

Count(results, b) == Cardinality({j \in 1..Len(results) : results[j] = b})

\* the positions of the list whose survey is UNSYNCED
UnsyncedAt(surveys) ==
  {k \in 1..Len(surveys) : surveys[k].syncStatus = SYNC_STATUS_UNSYNCED}

\* C13: while a sync runs, the records handed to it are exactly the
\* UNSYNCED surveys of the list in list order, and the records attempted so
\* far are the first records of that sequence, each once and in order.  When
\* the sync has settled on records that were UNSYNCED in the store, every
\* record has been attempted exactly once, a record is SYNCED in the store
\* exactly when its remote call succeeded and UNSYNCED when it failed, the
\* reported counts are the numbers of succeeded and failed calls and add up
\* to the number of records, every other row is as it was and no row has
\* been deleted.
C13_PerRecordIsolation ==
  LET batch == sync.localSurveys
      done == Len(sync.attempts)
  IN
  /\ sync.pc \in {"alert", "sync", "refresh"} =>
       /\ Len(batch) = Cardinality(UnsyncedAt(sync.surveys))
       /\ \A j \in 1..Len(batch) :
            /\ batch[j].syncStatus = SYNC_STATUS_UNSYNCED
            /\ \E k \in UnsyncedAt(sync.surveys) :
                 /\ sync.surveys[k] = batch[j]
                 /\ Cardinality({m \in UnsyncedAt(sync.surveys) : m < k}) = j - 1
  /\ sync.pc \in {"sync", "refresh"} =>
       /\ done <= Len(batch)
       /\ sync.attempts = [j \in 1..done |-> batch[j].id]
       /\ Len(sync.results) = done
       /\ Ids(sync.stored) = Ids(sync.pressed.stored)
  /\ (/\ sync.pc = "refresh"
      /\ \A j \in 1..Len(batch) :
           StatusOf(sync.pressed.stored, batch[j].id) = SYNC_STATUS_UNSYNCED) =>
       /\ done = Len(batch)
       /\ \A j \in 1..Len(batch) :
            StatusOf(sync.stored, batch[j].id) =
              IF sync.results[j] THEN SYNC_STATUS_SYNCED ELSE SYNC_STATUS_UNSYNCED
       /\ \A k \in 1..Len(sync.stored) :
            (\A j \in 1..Len(batch) : batch[j].id # sync.stored[k].id) =>
              sync.stored[k] = sync.pressed.stored[k]
       /\ sync.outcome.succeeded = Count(sync.results, TRUE)
       /\ sync.outcome.failed = Count(sync.results, FALSE)
       /\ sync.outcome.succeeded + sync.outcome.failed = Len(batch)

\* C13: a sync of three records has settled with the call of the second one
\* failed; it reports two succeeded and one failed.
C13_Witness ==
  /\ sync.pc = "refresh"
  /\ Len(sync.localSurveys) = 3
  /\ sync.results = <<TRUE, FALSE, TRUE>>
  /\ sync.outcome = [succeeded |-> 2, failed |-> 1]
  /\ [k \in 1..3 |-> sync.stored[k].syncStatus] =
       <<SYNC_STATUS_SYNCED, SYNC_STATUS_UNSYNCED, SYNC_STATUS_SYNCED>>

\* C19: the handler of the alert's OK button runs only after a press made
\* while the network was connected and at least one survey of the list was
\* UNSYNCED; it calls setShowsSpinner(true), then syncLocalSurveys, then,
\* once the sync has settled, refreshSurveys, then setShowsSpinner(false);
\* and when the handler has ended, with or without a rejection, the call
\* setShowsSpinner(false) has been made and the spinner is off.
C19_SpinnerProtocol ==
  LET protocol == <<"setShowsSpinner(true)", "syncLocalSurveys", "settled",
                    "refreshSurveys", "setShowsSpinner(false)">>
  IN /\ sync.pc \in {"sync", "refresh", "done", "rejected"} =>
          /\ sync.pressed.connected
          /\ sync.pressed.unsynced >= 1
          /\ Len(sync.calls) <= Len(protocol)
          /\ sync.calls = SubSeq(protocol, 1, Len(sync.calls))
     /\ sync.pc = "sync" => Len(sync.calls) = 2 /\ sync.showsSpinner
     /\ sync.pc = "refresh" => Len(sync.calls) = 4 /\ sync.showsSpinner
     /\ sync.pc \in {"done", "rejected"} =>
          /\ sync.calls = protocol
          /\ ~sync.showsSpinner

----------------------------------------------------------------------------
(* Two callers writing to the survey table without waiting for each        *)
(* other: each saves a record, of one of two shapes, or clears the table.  *)

RecC == <<Entry("name", Str(<<"c">>)), Entry("place", Str(<<"d">>))>>

InitRace == Init

NextRace ==
  \/ \E s \in Slots, record \in {RecA, RecC} : saveRecords(s, "Survey", <<record>>, "")
  \/ \E s \in Slots : clearTable(s, "Survey")
  \/ \E s \in Slots, io \in BOOLEAN : executeTransaction(s, io)

SpecRace == InitRace /\ [][NextRace]_vars

\* the table has a column for every field of the record
HasColumns(tab, record) ==
  \A i \in 1..Len(record) : ColIndex(tab.cols, record[i].k) # 0

\* C16, as stated: while no other write to its table has been in flight
\* since a saveRecords call began, nothing but the call changes the table,
\* and its insert runs against a table that exists and has a column for
\* every field of the first record of the batch.
C16_InsertFindsItsColumns ==
  [][\A s \in Slots :
       (ops[s].kind = "saveRecords" /\ ops[s].pc = "stmt" /\ ~overlap[s]) =>
         LET tab == tables[ops[s].table]
             tab2 == tables'[ops[s].table]
         IN IF ops'[s] = ops[s] THEN tab2 = tab
            ELSE ops[s].stmt.op = "insert" =>
                   tab.exists /\ HasColumns(tab, ops[s].records[1])]_vars

\* C16: while no other write to its table has been in flight since a
\* saveRecords call began, nothing but the call changes the table; its
\* create-table statement, when it succeeds, creates the table with a
\* column for every field of the first record if the table did not exist
\* and leaves it as it is if it did; and its insert runs against a table
\* that exists, and is not turned down for a missing table or column when
\* the table has a column for every field of the first record.
C16_InsertFindsItsTable ==
  [][\A s \in Slots :
       (ops[s].kind = "saveRecords" /\ ops[s].pc = "stmt" /\ ~overlap[s]) =>
         LET tab == tables[ops[s].table]
             tab2 == tables'[ops[s].table]
             first == ops[s].records[1]
         IN IF ops'[s] = ops[s] THEN tab2 = tab
            ELSE IF ops[s].stmt.op = "create"
            THEN ops'[s].pc = "stmt" =>
                   /\ tab2.exists
                   /\ tab.exists => tab2 = tab
                   /\ ~tab.exists => HasColumns(tab2, first)
            ELSE /\ tab.exists
                 /\ HasColumns(tab, first) =>
                      ops'[s].error \notin {ErrNoTable, ErrNoColumn}]_vars

\* C16: two saveRecords calls with records of different fields were made on
\* a table that did not exist; the create-table statement of the other call
\* ran first, and the insert of this call was rejected for a column the
\* table does not have.
C16_Witness ==
  \E s \in Slots, o \in Slots :
    /\ ops[s].kind = "saveRecords" /\ ops[o].kind = "saveRecords"
    /\ overlap[s] /\ overlap[o]
    /\ ops[s].issued = <<"create", "insert">>
    /\ ops[s].promise = "rejected"
    /\ ops[s].error = ErrNoColumn
    /\ ops[o].promise = "resolved"
    /\ Len(tables["Survey"].rows) = 1
    /\ localIds["Survey"] = <<1>>
    /\ ~HasColumns(tables["Survey"], ops[s].records[1])

----------------------------------------------------------------------------
(* The survey editor: fields are updated, surveys loaded, the editor       *)
(* cleared, and an action of an unknown type dispatched, in any order.     *)

DetailA == <<Entry("name", Str(<<"a">>))>>

DetailB == <<Entry("place", Str(<<"b">>)), Entry("name", Str(<<"c">>))>>

EditorActions ==
  {UpdateAction(name, value) : name \in {"name", "place"}, value \in {Str(<<"x">>), Num(1)}}
    \cup {LoadAction(detail) : detail \in {<<>>, DetailA, DetailB}}
    \cup {PlainAction("CLEAR"), PlainAction("RESET")}

InitEditor == Init

NextEditor == \E action \in EditorActions : dispatch(action)

SpecEditor == InitEditor /\ [][NextEditor]_vars

\* the position of the last LOAD or CLEAR of the log, 0 when there is none
LastReset(log) ==
  LET at == {i \in 1..Len(log) : log[i].type \in {"LOAD", "CLEAR"}}
  IN IF at = {} THEN 0 ELSE CHOOSE i \in at : \A j \in at : j <= i

RECURSIVE Overlaid(_, _, _)
\* survey with the fields of the UPDATE actions log[i..] written over it
Overlaid(survey, log, i) ==
  IF i > Len(log) THEN survey
  ELSE Overlaid(IF log[i].type = "UPDATE"
                THEN MapSet(survey, log[i].field.name, log[i].field.value)
                ELSE survey,
                log, i + 1)

\* the survey the editor should hold after the actions of the log
SurveyAfter(log) ==
  LET r == LastReset(log)
  IN Overlaid(IF r # 0 /\ log[r].type = "LOAD" THEN log[r].detail ELSE <<>>, log, r + 1)

\* the value of field name in survey, Undefined when it has none
FieldValue(survey, name) ==
  IF \E i \in 1..Len(survey) : survey[i].k = name
  THEN survey[CHOOSE i \in 1..Len(survey) : survey[i].k = name].v
  ELSE Undefined

\* C20: after every dispatch the survey of the state is the detail of the
\* most recent LOAD (empty when there was none or a CLEAR came later) with
\* the fields of the UPDATE actions since written over it in order; an
\* UPDATE gives the named field its value and leaves every other field as
\* it was; no object that existed before the dispatch is changed by it, the
\* state before it and initialState included, and initialState holds the
\* empty survey; an action of another type throws and leaves the state.
C20_ReducerFold ==
  [][LET action == editor'.log[Len(editor'.log)]
         old == editor.heap[editor.state]
         new == editor'.heap[editor'.state]
     IN /\ new = SurveyAfter(editor'.log)
        /\ \A ref \in 1..Len(editor.heap) : editor'.heap[ref] = editor.heap[ref]
        /\ editor'.heap[InitialStateRef] = <<>>
        /\ action.type = "UPDATE" =>
             /\ FieldValue(new, action.field.name) = action.field.value
             /\ \A name \in {"name", "place"} \ {action.field.name} :
                  FieldValue(new, name) = FieldValue(old, name)
        /\ action.type = "CLEAR" => new = <<>>
        /\ editor'.thrown <=> action.type \notin {"UPDATE", "LOAD", "CLEAR"}
        /\ editor'.thrown => editor'.state = editor.state]_vars

\* C20: a survey was loaded, the editor cleared and a field updated: the
\* survey holds that field alone and initialState is still empty.
C20_Witness ==
  /\ Len(editor.log) = 3
  /\ editor.log[1].type = "LOAD" /\ editor.log[1].detail = DetailB
  /\ editor.log[2].type = "CLEAR"
  /\ editor.log[3] = UpdateAction("name", Num(1))
  /\ editor.heap[editor.state] = <<Entry("name", Num(1))>>
  /\ editor.heap[InitialStateRef] = <<>>

====
